---- MODULE Spec2Model ----
(***************************************************************************)
(* A model of the UIM chatbot core: the hallucination retry guard          *)
(* (hallucination_detector.py), the two-agent orchestrator (agent.py),     *)
(* the metadata-driven service invoker with its response normaliser        *)
(* (service_invoker.py) and the tiered name resolution of the discovery    *)
(* service (discoveryLogic.py).                                            *)
(*                                                                         *)
(* The components share no state.  Each has its own specification         *)
(* (SpecGuard, SpecTwoAgent, SpecInvoke, SpecDiscovery); the variables of  *)
(* the other components stay at their initial values.                      *)
(***************************************************************************)
EXTENDS Integers, Sequences, FiniteSets, TLC

VARIABLES
    \* ---- chat_with_retry (hallucination_detector.py) ----
    g_pc,            \* "idle" | "running" (awaiting chatbot_agent.run) | "returned" | "raised" | "cancelled"
    max_retries,     \* the max_retries argument of the call
    attempt,         \* the loop variable of `for attempt in range(max_retries + 1)`
    query_with_hint, \* the prompt handed to the agent in the current run
    response_text,   \* the local response_text (Unbound before the first assignment)
    g_ret,           \* the value chat_with_retry returned (NoValue until it returns)
    prompts,         \* ghost: the prompt of every agent run started so far
    hist,            \* ghost: the outcome of every agent run finished so far
    \* ---- run_two_agent_system (agent.py) ----
    t_pc,            \* "idle" | "discovering" | "invoking" | "returned"
    t_intents,       \* number of intents of the service discovery returned
    t_runs,          \* ghost: number of invocation_agent.run calls made
    t_trace,         \* the tool names recorded in the invocation agent's messages
    t_called_tool,   \* the local invocation_called_tool
    t_data,          \* invocation_result.data of the invocation agent's run
    t_ret,           \* what run_two_agent_system returned
    \* ---- GenericServiceInvoker (service_invoker.py) ----
    api_keys,        \* self.api_keys, set by __init__ from the environment
    i_pc,            \* "idle" | "awaiting" (the HTTP call) | "returned" | "raised"
    i_call,          \* the arguments of the invoke call in progress
    i_built,         \* the locals invoke built: the four buckets and full_url
    i_missing,       \* ghost: names logged as "Missing required parameter"
    i_sent,          \* ghost: the HTTP requests handed to self.client by this call
    i_response,      \* ghost: what the HTTP call came to
    i_result,        \* the dict invoke returned
    i_error,         \* the exception invoke raised
    \* ---- DiscoveryLogic._find_service_by_name (discoveryLogic.py) ----
    d_pc,            \* "called" | "returned"
    d_services,      \* the services argument, each service by its "name"
    d_name_query,    \* the name_query argument
    d_returned,      \* the position in services of the service returned, 0 for None
    \* ---- POST /discover (discoveryController.py, discoveryLogic.py) ----
    e_pc,            \* "idle" | "awaiting_llm" (the POST to Ollama) | "responded"
    e_services,      \* serviceDAL.getServices(), each service by its "name"
    e_llm_calls,     \* ghost: number of POSTs made to Ollama
    e_llm,           \* ghost: what the POST to Ollama came to
    e_selected_name, \* selected_name, or the exception raised in place of it
    e_error,         \* the exception that reached the controller ("none" if none)
    e_status,        \* the HTTP status of the reply to POST /discover
    e_service,       \* the position in services of the service replied, 0 for none
    \* ---- run_fast_system (fast_system.py) ----
    f_pc,            \* "idle" | "discovering" (the POST to discovery) | "awaiting"
                     \* (the HTTP call of invoke) | "returned" | "raised"
    f_user_query,    \* the user_query argument
    f_client,        \* ghost: the httpx.AsyncClient of line 124: "none" | "open" | "closed"
    f_discovery,     \* ghost: what the POST to discovery came to
    f_intents,       \* intents, the intents of the service discovery returned
    f_metadata,      \* the metadata dict
    f_exception,     \* the exception that left run_fast_system ("none" if none)
    f_call,          \* service_metadata, intent_metadata and parameters
    f_sent,          \* ghost: the HTTP requests invoke handed to its client
    f_response,      \* ghost: what the HTTP call came to
    f_error_str,     \* error_str, as the pieces of text it is made of
    f_formatted_response, \* the kind of text returned to the user, or to be returned
    \* ---- the endpoints /chat/discover and /chat/invoke (main.py) ----
    c_pc,            \* "idle" | "awaiting" (the HTTP call of invoke) | "responded"
    c_endpoint,      \* "none" | "discover" | "invoke"
    c_discovery,     \* ghost: what the POST to discovery came to
    c_intents,       \* request.service_data["intents"]
    c_intent_name,   \* request.intent_name
    c_raised,        \* ghost: status of the HTTPException raised in the try body, 0 for none
    c_invocations,   \* ghost: the calls of service_invoker.invoke
    c_call,          \* service_metadata, intent_metadata and parameters
    c_sent,          \* ghost: the HTTP requests invoke handed to its client
    c_status,        \* the status of the HTTP response of the endpoint, 0 before it
    c_success        \* ChatbotResponse.success

guardVars == <<g_pc, max_retries, attempt, query_with_hint, response_text, g_ret, prompts, hist>>
twoAgentVars == <<t_pc, t_intents, t_runs, t_trace, t_called_tool, t_data, t_ret>>
invokeVars ==
    <<api_keys, i_pc, i_call, i_built, i_missing, i_sent, i_response, i_result, i_error>>
discoveryVars == <<d_pc, d_services, d_name_query, d_returned>>
endpointVars ==
    <<e_pc, e_services, e_llm_calls, e_llm, e_selected_name, e_error, e_status, e_service>>
fastVars ==
    <<f_pc, f_user_query, f_client, f_discovery, f_intents, f_metadata, f_exception,
      f_call, f_sent, f_response, f_error_str, f_formatted_response>>

chatVars ==
    <<c_pc, c_endpoint, c_discovery, c_intents, c_intent_name, c_raised, c_invocations,
      c_call, c_sent, c_status, c_success>>

vars ==
    <<guardVars, twoAgentVars, invokeVars, discoveryVars, endpointVars, fastVars, chatVars>>

\* What the actions of one component leave alone.
notGuard == <<twoAgentVars, invokeVars, discoveryVars, endpointVars, fastVars, chatVars>>
notTwoAgent == <<guardVars, invokeVars, discoveryVars, endpointVars, fastVars, chatVars>>
notInvoke == <<guardVars, twoAgentVars, discoveryVars, endpointVars, fastVars, chatVars>>
notDiscovery == <<guardVars, twoAgentVars, invokeVars, endpointVars, fastVars, chatVars>>
notEndpoint == <<guardVars, twoAgentVars, invokeVars, discoveryVars, fastVars, chatVars>>
notFast == <<guardVars, twoAgentVars, invokeVars, discoveryVars, endpointVars, chatVars>>
notChat == <<guardVars, twoAgentVars, invokeVars, discoveryVars, endpointVars, fastVars>>

\* ------------------------------------------------------------------------
\* Bounds of the model
\* ------------------------------------------------------------------------
\* The largest max_retries a call is made with.
MaxRetriesBound == 2

\* ------------------------------------------------------------------------
\* Values
\* ------------------------------------------------------------------------
\* A response text is modelled by the run that produced it (1, 2, ...) and the
\* set of marker substrings it contains.  Run 0 marks a variable that holds no
\* text yet.
Unbound == [run |-> 0, has |-> {}]
NoValue == [run |-> 0, has |-> {}]
NoReply == [kind |-> "none", text |-> {}]
NoData == "NoData"

\* The substrings detect_hallucination looks for.  "papers" stands for the
\* text holding "papers" in any letter case (the code lowers the text first).
MarkerPdf == "(PDF not available)"
MarkerPapers == "papers"
MarkerIFound == "I found"
MarkerLost == "Lost in the Middle"

\* The marker sets of the texts an agent run can produce.
TextKinds ==
    { {}, {MarkerIFound}, {MarkerPapers}, {MarkerPdf},
      {MarkerPdf, MarkerPapers}, {MarkerLost}, {MarkerIFound, MarkerPapers} }

\* The tool names a run's message parts can carry.
ToolTraces ==
    { <<>>, <<"discover_services">>, <<"invoke_service">>,
      <<"discover_services", "invoke_service">> }

Contains(text, marker) == marker \in text.has

SeqRange(s) == { s[i] : i \in 1..Len(s) }

\* ------------------------------------------------------------------------
\* hallucination_detector.py
\* ------------------------------------------------------------------------
\* invoke_called = any("invoke_service" in str(call) for call in tool_calls_made)
InvokeCalled(tool_calls_made) == "invoke_service" \in SeqRange(tool_calls_made)

\* The list hallucination_indicators.
HallucinationIndicators(response, invoke_called) ==
    << Contains(response, MarkerPdf) /\ Contains(response, MarkerPapers),
       Contains(response, MarkerIFound) /\ ~invoke_called,
       Contains(response, MarkerLost) >>

detect_hallucination_ToolOnly(response, tool_calls_made) ==
    ~InvokeCalled(tool_calls_made)

\* HallucinationDetector.detect_hallucination
detect_hallucination(response, tool_calls_made) ==
    LET invoke_called == InvokeCalled(tool_calls_made)
        indicators == HallucinationIndicators(response, invoke_called)
    IN  IF ~invoke_called
        THEN TRUE
        ELSE IF \E i \in 1..Len(indicators) : indicators[i]
             THEN TRUE
             ELSE FALSE

HintedQuery == [query |-> "user_query", hint |-> TRUE]
PlainQuery == [query |-> "user_query", hint |-> FALSE]

QueryForAttempt_NeverHints(n) == PlainQuery

\* Lines 80-85: the prompt of attempt n.
QueryForAttempt(n) == IF n > 0 THEN HintedQuery ELSE PlainQuery

MayRetry_OneTooMany(n, ceiling) == n <= ceiling

\* Line 110: `if attempt < max_retries`.
MayRetry(n, ceiling) == n < ceiling

MustRaise_AtOnce(n, ceiling) == TRUE

\* Line 119: `if attempt >= max_retries: raise`.
MustRaise(n, ceiling) == n >= ceiling

IsException_All(exc) == TRUE

\* Python's class tree, as `except Exception` reads it:
\* asyncio.CancelledError is a BaseException and no Exception.
IsException(exc) == exc # "CancelledError"

\* The loop moves to the next iteration: the next prompt is built and the agent
\* is run again.
NextAttempt ==
    /\ attempt' = attempt + 1
    /\ query_with_hint' = QueryForAttempt(attempt + 1)
    /\ prompts' = Append(prompts, QueryForAttempt(attempt + 1))
    /\ g_pc' = "running"
    /\ g_ret' = g_ret

\* chat_with_retry is called: attempt 0 starts and the agent is run.
ChatWithRetryCall(mr) ==
    /\ g_pc = "idle"
    /\ max_retries' = mr
    /\ attempt' = 0
    /\ query_with_hint' = QueryForAttempt(0)
    /\ prompts' = <<QueryForAttempt(0)>>
    /\ g_pc' = "running"
    /\ UNCHANGED <<response_text, g_ret, hist>>
    /\ UNCHANGED notGuard

\* chatbot_agent.run returns: lines 89-115.
AgentRunReturns(has, tool_calls) ==
    /\ g_pc = "running"
    /\ LET text == [run |-> Len(prompts), has |-> has]
           is_hallucination == detect_hallucination(text, tool_calls)
       IN  /\ response_text' = text
           /\ hist' = Append(hist, [kind |-> "response", text |-> text, tools |-> tool_calls])
           /\ IF ~is_hallucination
              THEN /\ g_pc' = "returned"
                   /\ g_ret' = text
                   /\ UNCHANGED <<attempt, query_with_hint, prompts>>
              ELSE IF MayRetry(attempt, max_retries)
                   THEN NextAttempt
                   ELSE /\ g_pc' = "returned"
                        /\ g_ret' = text
                        /\ UNCHANGED <<attempt, query_with_hint, prompts>>
    /\ UNCHANGED max_retries
    /\ UNCHANGED notGuard

\* chatbot_agent.run raises: lines 117-120.
AgentRunRaises ==
    /\ g_pc = "running"
    /\ hist' = Append(hist, [kind |-> "raised", text |-> Unbound, tools |-> <<>>])
    /\ IF MustRaise(attempt, max_retries)
       THEN /\ g_pc' = "raised"
            /\ UNCHANGED <<attempt, query_with_hint, prompts, g_ret>>
       ELSE NextAttempt
    /\ UNCHANGED <<max_retries, response_text>>
    /\ UNCHANGED notGuard

\* The caller cancels the task while it awaits chatbot_agent.run (line 89):
\* asyncio raises CancelledError at the await; the handler of line 117 takes
\* it only if it is an Exception, and otherwise it leaves chat_with_retry.
AgentRunCancelled ==
    /\ g_pc = "running"
    /\ IF IsException("CancelledError")
       THEN /\ hist' = Append(hist, [kind |-> "raised", text |-> Unbound, tools |-> <<>>])
            /\ IF MustRaise(attempt, max_retries)
               THEN /\ g_pc' = "raised"
                    /\ UNCHANGED <<attempt, query_with_hint, prompts, g_ret>>
               ELSE NextAttempt
       ELSE /\ g_pc' = "cancelled"
            /\ UNCHANGED <<attempt, query_with_hint, prompts, g_ret, hist>>
    /\ UNCHANGED <<max_retries, response_text>>
    /\ UNCHANGED notGuard

GuardInit ==
    /\ g_pc = "idle"
    /\ max_retries = 0
    /\ attempt = 0
    /\ query_with_hint = PlainQuery
    /\ response_text = Unbound
    /\ g_ret = NoValue
    /\ prompts = <<>>
    /\ hist = <<>>

GuardNext ==
    \/ \E mr \in 0..MaxRetriesBound : ChatWithRetryCall(mr)
    \/ \E has \in TextKinds, tool_calls \in ToolTraces : AgentRunReturns(has, tool_calls)
    \/ AgentRunRaises
    \/ AgentRunCancelled

\* ------------------------------------------------------------------------
\* agent.py: run_two_agent_system
\* ------------------------------------------------------------------------
\* The ceiling chat_with_retry uses when the caller names none.
DefaultMaxRetries == 2

\* The largest number of intents of a discovered service.
MaxIntents == 2

\* What the POST to /discovery/discover can come to: an HTTP or transport
\* error, a JSON body without a service, or a service with n intents.
DiscoveryOutcomes ==
    { [kind |-> "http_error", intents |-> 0], [kind |-> "no_service", intents |-> 0] }
    \cup { [kind |-> "service", intents |-> n] : n \in 0..MaxIntents }

\* The structured data an invocation-agent run can end with.
AgentData ==
    [ success : BOOLEAN, items_found : 0..1, formatted_response : TextKinds ]

\* The tool names the invocation agent's message parts can carry.
AgentTraces ==
    { <<>>, <<"final_result">>, <<"invoke_service", "final_result">>,
      <<"invoke_service", "invoke_service", "final_result">> }

\* `'invoke' in part.tool_name`, over the tool names of the model.
NameHasInvoke(tool_name) == tool_name = "invoke_service"

\* Lines 292-299: the scan of invocation_result._all_messages.
InvocationCalledTool(trace) == \E i \in 1..Len(trace) : NameHasInvoke(trace[i])

ErrorReply(why) == [kind |-> "error", text |-> why]

\* run_two_agent_system is called: the discovery request is sent (line 214).
TwoAgentCall ==
    /\ t_pc = "idle"
    /\ t_pc' = "discovering"
    /\ UNCHANGED <<t_intents, t_runs, t_trace, t_called_tool, t_data, t_ret>>
    /\ UNCHANGED notTwoAgent

\* The discovery request ends: lines 219-284.
DiscoveryResponds(d) ==
    /\ t_pc = "discovering"
    /\ IF d.kind = "http_error"
       THEN /\ t_pc' = "returned"
            /\ t_ret' = ErrorReply("Exception")
            /\ UNCHANGED <<t_intents, t_runs>>
       ELSE IF d.kind = "no_service"
            THEN /\ t_pc' = "returned"
                 /\ t_ret' = ErrorReply("AttributeError")
                 /\ UNCHANGED <<t_intents, t_runs>>
            ELSE IF d.intents = 0
                 THEN /\ t_pc' = "returned"
                      /\ t_ret' = ErrorReply("no intents")
                      /\ t_intents' = 0
                      /\ UNCHANGED t_runs
                 ELSE /\ t_pc' = "invoking"
                      /\ t_intents' = d.intents
                      /\ t_runs' = t_runs + 1
                      /\ UNCHANGED t_ret
    /\ UNCHANGED <<t_trace, t_called_tool, t_data>>
    /\ UNCHANGED notTwoAgent

\* invocation_agent.run returns: lines 284-308.
InvocationAgentReturns(data, trace) ==
    /\ t_pc = "invoking"
    /\ t_trace' = trace
    /\ t_called_tool' = InvocationCalledTool(trace)
    /\ t_data' = data
    /\ t_pc' = "returned"
    /\ t_ret' = [kind |-> "formatted", text |-> data.formatted_response]
    /\ UNCHANGED <<t_intents, t_runs>>
    /\ UNCHANGED notTwoAgent

\* invocation_agent.run raises: lines 310-321.
InvocationAgentRaises(why) ==
    /\ t_pc = "invoking"
    /\ t_pc' = "returned"
    /\ t_ret' = ErrorReply(why)
    /\ UNCHANGED <<t_intents, t_runs, t_trace, t_called_tool, t_data>>
    /\ UNCHANGED notTwoAgent

TwoAgentInit ==
    /\ t_pc = "idle"
    /\ t_intents = 0
    /\ t_runs = 0
    /\ t_trace = <<>>
    /\ t_called_tool = FALSE
    /\ t_data = NoData
    /\ t_ret = NoReply

TwoAgentNext ==
    \/ TwoAgentCall
    \/ \E d \in DiscoveryOutcomes : DiscoveryResponds(d)
    \/ \E data \in AgentData, trace \in AgentTraces : InvocationAgentReturns(data, trace)
    \/ \E why \in {"AttributeError", "KeyError", "Exception"} : InvocationAgentRaises(why)

\* ------------------------------------------------------------------------
\* service_invoker.py: GenericServiceInvoker
\* ------------------------------------------------------------------------
\* Python's None.
NoneVal == "None"

\* A dict is a function whose domain is the set of its keys.
EmptyDict == [k \in {} |-> NoneVal]

DictSet(d, key, value) ==
    [k \in (DOMAIN d) \cup {key} |-> IF k = key THEN value ELSE d[k]]

\* The names the ParameterSpecs of the model declare, by position in the schema.
ParamNames == <<"a", "b">>

\* f"{{{param_name}}}": the placeholder text of a parameter name.
Token(name) == IF name = "a" THEN "{a}" ELSE "{b}"

Locations == {"query", "body", "header", "path"}

\* Values a caller passes: a plain value and one that is itself placeholder text.
UserValues == {"u", "{a}"}

\* Declared defaults: none, or a value.
DefaultValues == {NoneVal, "d"}

ParameterSpecs(n) ==
    [name : {ParamNames[n]}, location : Locations, required : BOOLEAN,
     default : DefaultValues]

\* input_parameters: schemas of up to two ParameterSpecs.
Schemas ==
    {<<>>} \cup { <<s>> : s \in ParameterSpecs(1) }
           \cup { <<s, t>> : s \in ParameterSpecs(1), t \in ParameterSpecs(2) }

\* parameters: a value, or an explicit None, for any subset of the names.
ParameterMaps ==
    UNION { [S -> UserValues \cup {NoneVal}] : S \in SUBSET SeqRange(ParamNames) }

\* endpoint_path, as the sequence of its literal pieces and placeholders.
EndpointPaths ==
    { <<"/query">>,
      <<"/items/", "{a}">>,
      <<"/items/", "{a}", "/sub/", "{b}">>,
      <<"/", "{b}", "/", "{a}", "/", "{a}">> }

HttpMethods == {"GET", "POST", "PUT", "DELETE", "PATCH"}

WeatherUrl == "https://api.openweathermap.org/data/2.5"
ArxivUrl == "http://export.arxiv.org/api"
ServiceUrls == {WeatherUrl, ArxivUrl}

\* `domain in service_url`, over the URLs of the model.
DomainIn(domain, service_url) ==
    domain = "openweathermap.org" /\ service_url = WeatherUrl

ServiceNames == {"arXiv API", "OpenWeatherMap", "News API"}
IntentNames == {"search_papers", "get_current_weather", "get_forecast"}

AuthTypes == {"none", "api_key", "oauth", "bearer"}
AuthHeaderNames == {NoneVal, "", "X-API-Key"}
AuthQueryParams == {NoneVal, "", "appid", "a"}

\* Python truthiness of an optional string.
Truthy(x) == x # NoneVal /\ x # ""

\* Lines 31-34: os.getenv("OPENWEATHER_API_KEY", "demo_key") for an unset
\* variable and for one set to the empty string.
ApiKeyTables ==
    { << <<"openweathermap.org", "demo_key">> >>,
      << <<"openweathermap.org", "">> >> }

RECURSIVE KeyLookup(_, _, _)
KeyLookup(table, service_url, i) ==
    IF i > Len(table) THEN NoneVal
    ELSE IF DomainIn(table[i][1], service_url) THEN table[i][2]
    ELSE KeyLookup(table, service_url, i + 1)

\* GenericServiceInvoker._get_api_key
get_api_key(table, service_metadata) ==
    KeyLookup(table, service_metadata.service_url, 1)

EmptyBuckets ==
    [query_params |-> EmptyDict, body_params |-> EmptyDict, headers |-> EmptyDict,
     path_params |-> <<>>, missing |-> {}]

\* path_params[param_name] = value, keeping the insertion order of the dict.
PathSet(path_params, name, value) ==
    IF \E i \in 1..Len(path_params) : path_params[i][1] = name
    THEN [i \in 1..Len(path_params) |->
             IF path_params[i][1] = name THEN <<name, value>> ELSE path_params[i]]
    ELSE Append(path_params, <<name, value>>)

ResolveValue_DefaultFirst(parameters, param_schema) ==
    IF param_schema.default # NoneVal
    THEN param_schema.default
    ELSE IF param_schema.name \in DOMAIN parameters
    THEN parameters[param_schema.name]
    ELSE NoneVal

\* Line 87: value = parameters.get(param_name, default)
ResolveValue(parameters, param_schema) ==
    IF param_schema.name \in DOMAIN parameters
    THEN parameters[param_schema.name]
    ELSE param_schema.default

RouteValue_PathToQuery(b, param_schema, value) ==
    IF param_schema.location \in {"query", "path"}
    THEN [b EXCEPT !.query_params = DictSet(@, param_schema.name, value)]
    ELSE IF param_schema.location = "body"
    THEN [b EXCEPT !.body_params = DictSet(@, param_schema.name, value)]
    ELSE [b EXCEPT !.headers = DictSet(@, param_schema.name, value)]

\* Lines 97-105: the value goes to the bucket its location names.
RouteValue(b, param_schema, value) ==
    IF param_schema.location = "query"
    THEN [b EXCEPT !.query_params = DictSet(@, param_schema.name, value)]
    ELSE IF param_schema.location = "body"
    THEN [b EXCEPT !.body_params = DictSet(@, param_schema.name, value)]
    ELSE IF param_schema.location = "header"
    THEN [b EXCEPT !.headers = DictSet(@, param_schema.name, value)]
    ELSE IF param_schema.location = "path"
    THEN [b EXCEPT !.path_params = PathSet(@, param_schema.name, value)]
    ELSE b

\* Lines 80-105: one iteration of the loop over input_parameters.
ProcessParam(b, parameters, param_schema) ==
    LET value == ResolveValue(parameters, param_schema)
    IN  IF value = NoneVal /\ ~param_schema.required THEN b
        ELSE IF value = NoneVal /\ param_schema.required
        THEN [b EXCEPT !.missing = @ \cup {param_schema.name}]
        ELSE RouteValue(b, param_schema, value)

RECURSIVE ProcessParams(_, _, _, _)
ProcessParams(b, parameters, schema, i) ==
    IF i > Len(schema) THEN b
    ELSE ProcessParams(ProcessParam(b, parameters, schema[i]), parameters, schema, i + 1)

AddAuthentication_Both(b, table, service_metadata) ==
    IF service_metadata.auth_type = "api_key"
    THEN LET api_key == get_api_key(table, service_metadata)
             withQuery ==
                 IF Truthy(api_key) /\ Truthy(service_metadata.auth_query_param)
                 THEN [b EXCEPT !.query_params =
                           DictSet(@, service_metadata.auth_query_param, api_key)]
                 ELSE b
         IN  IF Truthy(api_key) /\ Truthy(service_metadata.auth_header_name)
             THEN [withQuery EXCEPT !.headers =
                       DictSet(@, service_metadata.auth_header_name, api_key)]
             ELSE withQuery
    ELSE b

AddAuthentication_Always(b, table, service_metadata) ==
    LET api_key == get_api_key(table, service_metadata)
    IN  IF Truthy(api_key) /\ Truthy(service_metadata.auth_query_param)
        THEN [b EXCEPT !.query_params =
                  DictSet(@, service_metadata.auth_query_param, api_key)]
        ELSE b

\* Lines 107-118: the API key goes to the query bucket, else to the headers.
AddAuthentication(b, table, service_metadata) ==
    IF service_metadata.auth_type = "api_key"
    THEN LET api_key == get_api_key(table, service_metadata)
         IN  IF Truthy(api_key)
             THEN IF Truthy(service_metadata.auth_query_param)
                  THEN [b EXCEPT !.query_params =
                            DictSet(@, service_metadata.auth_query_param, api_key)]
                  ELSE IF Truthy(service_metadata.auth_header_name)
                       THEN [b EXCEPT !.headers =
                                 DictSet(@, service_metadata.auth_header_name, api_key)]
                       ELSE b
             ELSE b
    ELSE b

\* full_url.replace(f"{{{param_name}}}", str(param_value))
ReplaceToken(url, name, value) ==
    [i \in 1..Len(url) |-> IF url[i] = Token(name) THEN value ELSE url[i]]

SubstitutePath_FirstOnly(url, path_params, i) ==
    IF Len(path_params) = 0 THEN url
    ELSE ReplaceToken(url, path_params[1][1], path_params[1][2])

SubstitutePath_StripUnresolved(url, path_params, i) ==
    [j \in 1..Len(url) |->
        IF url[j] \in {"{a}", "{b}"}
        THEN IF \E k \in 1..Len(path_params) : Token(path_params[k][1]) = url[j]
             THEN path_params[CHOOSE k \in 1..Len(path_params) :
                                  Token(path_params[k][1]) = url[j]][2]
             ELSE ""
        ELSE url[j]]

\* Lines 120-122: the loop over path_params.items().
RECURSIVE SubstitutePath(_, _, _)
SubstitutePath(url, path_params, i) ==
    IF i > Len(path_params) THEN url
    ELSE SubstitutePath(ReplaceToken(url, path_params[i][1], path_params[i][2]),
                        path_params, i + 1)

\* Lines 60-122: what invoke builds before the HTTP call.
BuildRequest(table, call) ==
    LET routed == ProcessParams(EmptyBuckets, call.parameters,
                                call.intent.input_parameters, 1)
        authed == AddAuthentication(routed, table, call.service)
        full_url == <<call.service.service_url>> \o call.intent.endpoint_path
    IN  [query_params |-> authed.query_params,
         body_params |-> authed.body_params,
         headers |-> authed.headers,
         path_params |-> authed.path_params,
         missing |-> authed.missing,
         full_url |-> SubstitutePath(full_url, authed.path_params, 1)]

Dispatch_Twice(method, built) ==
    LET base == [method |-> method, url |-> built.full_url,
                 params |-> built.query_params, headers |-> built.headers,
                 has_json |-> FALSE, json |-> EmptyDict]
    IN  IF method \in {"GET", "POST", "PUT", "DELETE"} THEN <<base, base>> ELSE <<>>

\* Lines 129-141: the client call of each method; PATCH and anything else is
\* answered with ValueError before any request is made.
Dispatch(method, built) ==
    LET base == [method |-> method, url |-> built.full_url,
                 params |-> built.query_params, headers |-> built.headers,
                 has_json |-> FALSE, json |-> EmptyDict]
    IN  IF method = "GET" THEN <<base>>
        ELSE IF method = "POST"
        THEN IF DOMAIN built.body_params # {}
             THEN << [base EXCEPT !.has_json = TRUE, !.json = built.body_params] >>
             ELSE <<base>>
        ELSE IF method = "PUT"
        THEN << [base EXCEPT !.has_json = TRUE, !.json = built.body_params] >>
        ELSE IF method = "DELETE" THEN <<base>>
        ELSE <<>>

\* ---- the HTTP exchange and the response normaliser ----
\* The largest number of redirects the upstream answers one call with.
MaxRedirects == 1

\* The Location of a redirect answer.
RedirectLocation == "https://moved.example/"

\* Line 28: the client is built with follow_redirects=True.  For a 302 answer
\* with a Location it sends a GET to the new URL, with the headers of the
\* request it follows and without its query parameters and body.
RedirectRequest(request) ==
    [method |-> "GET", url |-> <<RedirectLocation>>, params |-> EmptyDict,
     headers |-> request.headers, has_json |-> FALSE, json |-> EmptyDict]

Last(requests) == requests[Len(requests)]

\* The content-type header of a response ("" when the header is missing).
ContentTypes ==
    {"application/atom+xml", "text/xml", "application/json", "text/plain", ""}

\* `word in content_type`, over the content types of the model.
CtHas(content_type, word) ==
    \/ word = "xml" /\ content_type \in {"application/atom+xml", "text/xml"}
    \/ word = "atom" /\ content_type = "application/atom+xml"
    \/ word = "json" /\ content_type = "application/json"

\* The response bodies of the model:
\*   atom_feed      a well-formed Atom feed with entries
\*   xml_doc        a well-formed XML document whose root is not feed
\*   xml_feed_text  a well-formed <feed> holding only text
\*   json_object    a JSON object
\*   json_array     a JSON array
\*   brace_garbage  text that starts with "{" and is not JSON
\*   plain_text     text that is neither XML nor JSON
\*   empty          the empty body
Bodies ==
    {"atom_feed", "xml_doc", "xml_feed_text", "json_object", "json_array",
     "brace_garbage", "plain_text", "empty"}

\* xmltodict.parse(response.text) succeeds.
XmlParses(body) == body \in {"atom_feed", "xml_doc", "xml_feed_text"}

\* response.json() succeeds.
JsonParses(body) == body \in {"json_object", "json_array"}

\* response.text.strip().startswith("{")
StartsWithBrace(body) == body \in {"json_object", "brace_garbage"}

\* `word in service_name.lower()`, over the service names of the model.
NameHas(service_name, word) ==
    \/ word = "arxiv" /\ service_name = "arXiv API"
    \/ word = "openweather" /\ service_name = "OpenWeatherMap"

SuccessStatuses == {200, 201}
ErrorStatuses == {401, 403, 404, 429, 500}

HttpResponses ==
    [kind : {"response"}, status : {200}, content_type : ContentTypes, body : Bodies]
    \cup [kind : {"response"}, status : SuccessStatuses,
          content_type : {"application/json", "text/xml"},
          body : {"json_object", "empty"}]
    \cup [kind : {"response"}, status : ErrorStatuses,
          content_type : {"application/json"}, body : {"json_object", "empty"}]
    \cup [kind : {"ConnectError", "TimeoutException"}, status : {0},
          content_type : {""}, body : {"empty"}]

Absent == "<absent>"

Returned(result) == [raised |-> FALSE, result |-> result, error |-> "none"]
Raised(error) ==
    [raised |-> TRUE,
     result |-> [success |-> FALSE, format |-> Absent, payload |-> "none"],
     error |-> error]

\* The entries of the feed of a body: of the Atom feed of the model, one with
\* a link titled "pdf" and one with no such link; of the other bodies, none.
FeedEntries(body) ==
    IF body = "atom_feed"
    THEN << [id |-> "http://arxiv.org/abs/1", title |-> "t1", summary |-> "s1",
             published |-> "p1", updated |-> "u1", pdf_href |-> "http://arxiv.org/pdf/1"],
            [id |-> "http://arxiv.org/abs/2", title |-> "t2", summary |-> "s2",
             published |-> "p2", updated |-> "u2", pdf_href |-> NoneVal] >>
    ELSE <<>>

\* Lines 263-272: the paper built from one entry (the last piece of the id,
\* the authors and the categories are kept as tags).
PaperOf(entry) ==
    [id |-> "last piece of id", title |-> entry.title, authors |-> "authors",
     summary |-> entry.summary, published |-> entry.published,
     updated |-> entry.updated, pdf_url |-> entry.pdf_href,
     categories |-> "categories"]

\* Lines 240-273: the papers list of the arXiv result.
Papers(body) == [i \in 1..Len(FeedEntries(body)) |-> PaperOf(FeedEntries(body)[i])]

\* GenericServiceInvoker._parse_arxiv_response
parse_arxiv_response(body) ==
    IF body = "xml_feed_text"
    THEN Raised("AttributeError")
    ELSE Returned([success |-> TRUE, format |-> "arxiv", payload |-> "papers"])

\* GenericServiceInvoker._parse_openweather_response
parse_openweather_response(body, intent_name) ==
    IF intent_name = "get_current_weather"
    THEN IF body = "json_array" THEN Raised("AttributeError")
         ELSE Returned([success |-> TRUE, format |-> "openweather_current",
                        payload |-> "weather"])
    ELSE IF intent_name = "get_forecast"
    THEN IF body = "json_array" THEN Raised("AttributeError")
         ELSE Returned([success |-> TRUE, format |-> "openweather_forecast",
                        payload |-> "forecasts"])
    ELSE Returned([success |-> TRUE, format |-> "openweather", payload |-> "data"])

\* GenericServiceInvoker._parse_xml_response: a failed parse is logged and
\* raised again.
parse_xml_response(body, service_name, intent_name) ==
    IF ~XmlParses(body) THEN Raised("ExpatError")
    ELSE IF NameHas(service_name, "arxiv") THEN parse_arxiv_response(body)
    ELSE Returned([success |-> TRUE, format |-> "xml", payload |-> "data"])

\* GenericServiceInvoker._parse_json_response: a failed parse is logged and
\* raised again.
parse_json_response(body, service_name, intent_name) ==
    IF ~JsonParses(body) THEN Raised("JSONDecodeError")
    ELSE IF NameHas(service_name, "openweather")
    THEN parse_openweather_response(body, intent_name)
    ELSE Returned([success |-> TRUE, format |-> "json", payload |-> "data"])

\* Lines 145-160: the branch on the content type.
NormalizeResponse(resp, service_name, intent_name) ==
    IF CtHas(resp.content_type, "xml") \/ CtHas(resp.content_type, "atom")
    THEN parse_xml_response(resp.body, service_name, intent_name)
    ELSE IF CtHas(resp.content_type, "json") \/ StartsWithBrace(resp.body)
    THEN parse_json_response(resp.body, service_name, intent_name)
    ELSE Returned([success |-> TRUE, format |-> Absent, payload |-> "raw_text"])

\* raise Exception(f"Failed to call {service_name}: {str(e)}") and
\* raise Exception(f"Failed to invoke {service_name}: {str(e)}")
\* The status code and reason phrase in str(e) of an httpx.HTTPStatusError.
StatusLine(status) ==
    CASE status = 401 -> "401 Unauthorized"
      [] status = 403 -> "403 Forbidden"
      [] status = 404 -> "404 Not Found"
      [] status = 429 -> "429 Too Many Requests"
      [] OTHER -> "500 Internal Server Error"

\* The pieces of text of the request URL, query string included.
UrlText(request) ==
    SeqRange(request.url) \cup DOMAIN request.params
        \cup { request.params[k] : k \in DOMAIN request.params }

\* str(e) of a transport error: text of the failure, none for a timeout.
TransportText(kind) ==
    IF kind = "ConnectError" THEN {"All connection attempts failed"} ELSE {}

\* The Exception of lines 164 and 167.  message holds the pieces of text of
\* its only argument, f"{prefix} {service_name}: {str(e)}"; cause and status
\* are the class and status code of the exception it was raised from.
InvokeError(prefix, cause, status, message) ==
    [type |-> "Exception", prefix |-> prefix, cause |-> cause, status |-> status,
     message |-> message]

NoError == InvokeError("none", "none", 0, {})
NoResult == [success |-> FALSE, format |-> Absent, payload |-> "none"]

\* Lines 143-167: what invoke does with the outcome of the HTTP call.
HandleResponse(resp, service_name, intent_name, request) ==
    IF resp.kind # "response"
    THEN Raised(InvokeError("Failed to call", resp.kind, 0,
                            {service_name} \cup TransportText(resp.kind)))
    ELSE IF resp.status \notin 200..299
    THEN Raised(InvokeError("Failed to call", "HTTPStatusError", resp.status,
                            {service_name, StatusLine(resp.status)}
                                \cup UrlText(request)))
    ELSE LET n == NormalizeResponse(resp, service_name, intent_name)
         IN  IF n.raised
             THEN Raised(InvokeError("Failed to invoke", n.error, 0,
                                     {service_name, "parse error"}))
             ELSE n

\* ---- the calls of the model ----
PlainService ==
    [name |-> "News API", service_url |-> ArxivUrl, auth_type |-> "none",
     auth_header_name |-> NoneVal, auth_query_param |-> NoneVal]

Services ==
    [name : {"OpenWeatherMap"}, service_url : ServiceUrls, auth_type : AuthTypes,
     auth_header_name : AuthHeaderNames, auth_query_param : AuthQueryParams]

\* One required parameter "a" without a default, at each location.
OneParamSchemas ==
    { << [name |-> "a", location |-> l, required |-> TRUE, default |-> NoneVal] >> :
          l \in Locations }

\* Schemas whose parameters are path- or query-located.
PathQuerySchemas ==
    { sch \in Schemas :
          \A i \in 1..Len(sch) : sch[i].location \in {"path", "query"} }

FullPath == <<"/items/", "{a}", "/sub/", "{b}">>

SearchIntents(paths, schemas) ==
    [intent_name : {"search_papers"}, http_method : {"GET"},
     endpoint_path : paths, input_parameters : schemas]

\* The calls made on an invoker whose key table is `table`.
InvokeCalls(table) ==
    \* every method, for one supplied required parameter at each location
    [service : {PlainService, [PlainService EXCEPT !.name = "OpenWeatherMap"]},
     intent : [intent_name : {"get_current_weather"}, http_method : HttpMethods,
               endpoint_path : {<<"/items/", "{a}">>},
               input_parameters : OneParamSchemas],
     parameters : {[k \in {"a"} |-> "u"]}]
    \cup
    \* every auth setting, for a GET with one supplied required parameter
    [service : Services,
     intent : [intent_name : {"get_current_weather"}, http_method : {"GET"},
               endpoint_path : {<<"/items/", "{a}">>},
               input_parameters : OneParamSchemas],
     parameters : {[k \in {"a"} |-> "u"]}]
    \cup
    \* every service and intent name, for a GET without parameters
    [service : [name : ServiceNames, service_url : {ArxivUrl}, auth_type : {"none"},
                auth_header_name : {NoneVal}, auth_query_param : {NoneVal}],
     intent : [intent_name : IntentNames, http_method : {"GET"},
               endpoint_path : {<<"/query">>}, input_parameters : {<<>>}],
     parameters : {EmptyDict}]
    \cup
    \* with the default key table: a GET on a service without auth, for every
    \* schema and parameter map on the path with both placeholders, and for
    \* every path with the path- and query-located schemas
    (IF table[1][2] = "demo_key"
     THEN [service : {PlainService},
           intent : SearchIntents({FullPath}, Schemas),
           parameters : ParameterMaps]
          \cup
          [service : {PlainService},
           intent : SearchIntents(EndpointPaths, PathQuerySchemas),
           parameters : ParameterMaps]
     ELSE {})

NoCall == "NoCall"
NoBuilt == "NoBuilt"
NoResponse ==
    [kind |-> "none", status |-> 0, content_type |-> "", body |-> "empty",
     service_name |-> "none", intent_name |-> "none"]

\* invoke is called: the request is built and handed to the HTTP client
\* (lines 60-141).
InvokeCall(call) ==
    /\ i_pc = "idle"
    /\ LET built == BuildRequest(api_keys, call)
           sent == Dispatch(call.intent.http_method, built)
       IN  /\ i_call' = call
           /\ i_built' = built
           /\ i_missing' = built.missing
           /\ i_sent' = sent
           /\ IF sent = <<>>
              THEN /\ i_pc' = "raised"
                   /\ i_error' = InvokeError("Failed to invoke", "ValueError", 0,
                                              {call.service.name,
                                               "Unsupported HTTP method"})
              ELSE /\ i_pc' = "awaiting"
                   /\ i_error' = i_error
    /\ UNCHANGED <<api_keys, i_response, i_result>>
    /\ UNCHANGED notInvoke

\* The HTTP call ends: lines 143-167.  The frame of the call is gone when
\* invoke returns or raises.
HttpResponds(resp) ==
    /\ i_pc = "awaiting"
    /\ LET out == HandleResponse(resp, i_call.service.name,
                                  i_call.intent.intent_name, Last(i_sent))
       IN  /\ i_response' = [kind |-> resp.kind, status |-> resp.status,
                             content_type |-> resp.content_type, body |-> resp.body,
                             service_name |-> i_call.service.name,
                             intent_name |-> i_call.intent.intent_name]
           /\ IF out.raised
              THEN /\ i_pc' = "raised"
                   /\ i_error' = out.error
                   /\ i_result' = i_result
              ELSE /\ i_pc' = "returned"
                   /\ i_result' = out.result
                   /\ i_error' = i_error
    /\ i_call' = NoCall
    /\ i_built' = NoBuilt
    /\ i_sent' = <<>>
    /\ UNCHANGED <<api_keys, i_missing>>
    /\ UNCHANGED notInvoke

\* The upstream answers 302 with a Location: the client of line 28 follows it
\* inside the client call invoke awaits.
HttpRedirects ==
    /\ i_pc = "awaiting"
    /\ Len(i_sent) <= MaxRedirects
    /\ i_sent' = Append(i_sent, RedirectRequest(Last(i_sent)))
    /\ UNCHANGED <<api_keys, i_pc, i_call, i_built, i_missing, i_response, i_result,
                   i_error>>
    /\ UNCHANGED notInvoke

InvokeInit ==
    /\ api_keys \in ApiKeyTables
    /\ i_pc = "idle"
    /\ i_call = NoCall
    /\ i_built = NoBuilt
    /\ i_missing = {}
    /\ i_sent = <<>>
    /\ i_response = NoResponse
    /\ i_result = NoResult
    /\ i_error = NoError

InvokeNext ==
    \/ \E call \in InvokeCalls(api_keys) : InvokeCall(call)
    \/ \E resp \in HttpResponses : HttpResponds(resp)
    \/ HttpRedirects

\* ------------------------------------------------------------------------
\* fast_system.py: run_fast_system
\* ------------------------------------------------------------------------
\* user_query: a question, and one that holds a number.
UserQueries == {"weather in Paris", "flight 401 status"}

\* Line 164: f"all:{user_query.replace(...)}", over the queries of the model.
SearchQuery(user_query) ==
    IF user_query = "weather in Paris" THEN "all:weather in Paris"
    ELSE "all:flight 401 status"

\* Lines 162-173: the parameters built for the service; the numbers are
\* written as the text they have in a URL.
FastParameters(service_name, user_query) ==
    IF NameHas(service_name, "arxiv")
    THEN [k \in {"search_query", "max_results", "sortBy", "sortOrder"} |->
             CASE k = "search_query" -> SearchQuery(user_query)
               [] k = "max_results" -> "10"
               [] k = "sortBy" -> "relevance"
               [] OTHER -> "descending"]
    ELSE [k \in {"query", "limit"} |-> IF k = "query" THEN user_query ELSE "10"]

\* The services discovery hands over: without authentication, and with an API
\* key sent in the query string.
FastServices ==
    [name : ServiceNames, service_url : ServiceUrls, auth_type : {"none", "api_key"},
     auth_header_name : {NoneVal}, auth_query_param : {"appid"}]

\* Their first intent: it declares the parameter the handler fills in, in the
\* query string or in the body, or declares none.
FastIntents ==
    [intent_name : {"search_papers"}, http_method : HttpMethods,
     endpoint_path : {<<"/query">>},
     input_parameters :
         {<<>>}
         \cup { << [name |-> n, location |-> l, required |-> TRUE,
                    default |-> NoneVal] >> :
                    n \in {"query", "search_query"}, l \in {"query", "body"} }]

\* `word in error_str` and `word in error_str.lower()`, over the pieces of
\* text of the model.
PieceHas(piece, word) ==
    \/ word = "401"
       /\ piece \in {"401 Unauthorized", "flight 401 status", "all:flight 401 status"}
    \/ word = "unauthorized" /\ piece = "401 Unauthorized"

Mentions(error_str, word) == \E piece \in error_str : PieceHas(piece, word)

\* Lines 234-240: the text returned for an exception of invoke.
FormatInvokeError(error_str) ==
    IF \/ Mentions(error_str, "401")
       \/ Mentions(error_str, "authentication")
       \/ Mentions(error_str, "unauthorized")
    THEN "Oops! Missing API key"
    ELSE "Error calling"

NoText == "NoText"

\* ---- discovery ----
\* An intent that is listed after the first one.
SecondIntent ==
    [intent_name |-> "get_forecast", http_method |-> "DELETE",
     endpoint_path |-> <<"/items/", "{a}">>, input_parameters |-> <<>>]

\* service.get("intents", []): no intent, one, or one followed by another.
FastIntentLists ==
    {<<>>} \cup { <<intent>> : intent \in FastIntents }
           \cup { <<intent, SecondIntent>> : intent \in FastIntents }

NoService ==
    [name |-> NoneVal, service_url |-> NoneVal, auth_type |-> "none",
     auth_header_name |-> NoneVal, auth_query_param |-> NoneVal]

\* What the POST to the discovery service comes to: a transport error, an
\* error status, or 200 with a body that is not JSON, a JSON list, a JSON
\* object whose "service" is null, or the reply of the discovery controller.
DiscoveryReplies ==
    [kind : {"ConnectError", "TimeoutException"}, status : {0}, body : {"none"},
     service : {NoService}, intents : {<<>>}]
    \cup [kind : {"response"}, status : {401, 404, 500, 503}, body : {"detail"},
          service : {NoService}, intents : {<<>>}]
    \cup [kind : {"response"}, status : {200},
          body : {"not_json", "json_list", "service_null"},
          service : {NoService}, intents : {<<>>}]
    \cup [kind : {"response"}, status : {200}, body : {"service"},
          service : FastServices, intents : FastIntentLists]

NoDiscovery ==
    [kind |-> "none", status |-> 0, body |-> "none", service |-> NoService,
     intents |-> <<>>]

\* Lines 124-135: the exception the discovery step raises, "none" if none.
DiscoveryException(reply) ==
    IF reply.kind # "response" THEN reply.kind
    ELSE IF reply.status \notin 200..299 THEN "HTTPStatusError"
    ELSE IF reply.body = "not_json" THEN "JSONDecodeError"
    ELSE IF reply.body = "json_list" THEN "AttributeError"
    ELSE "none"

\* Lines 244-265: the handlers of the outer try; the text they return, or
\* "uncaught" for an exception none of them handles.
OuterHandler_HttpOnly(exc, status) ==
    IF exc = "HTTPStatusError"
    THEN IF status = 401 THEN "Authentication error: Missing API key for discovery"
         ELSE "HTTP error"
    ELSE IF exc \in {"ConnectError", "TimeoutException"}
    THEN "Could not connect to discovery service"
    ELSE "uncaught"

OuterHandler(exc, status) ==
    IF exc = "HTTPStatusError"
    THEN IF status = 401 THEN "Authentication error: Missing API key for discovery"
         ELSE "HTTP error"
    ELSE IF exc \in {"ConnectError", "TimeoutException"}
    THEN "Could not connect to discovery service"
    ELSE IF IsException(exc) THEN "Unexpected error"
    ELSE "uncaught"

\* Line 152: intent = intents[0]
FirstIntent_Last(intents) == intents[Len(intents)]

FirstIntent(intents) == intents[1]

NoMetadata ==
    [service_name |-> NoneVal, intent_name |-> NoneVal, success |-> FALSE,
     error |-> NoneVal]

\* ---- formatting ----
\* The Python type of the data parsed from a body.
DataShape(body) ==
    IF body \in {"json_object", "atom_feed", "xml_doc", "xml_feed_text"} THEN "dict"
    ELSE IF body = "json_array" THEN "list of dicts"
    ELSE IF body = "empty" THEN "empty str"
    ELSE "str"

\* format_generic_results on a result of invoke: the exception it raises,
\* "none" if it returns a text.  The items are looked up under "papers",
\* "items", "results", "data", "tracks" and "repositories"; items[:10] fails
\* on a dict and item.get fails on the characters of a string.
format_generic_results(result, body) ==
    IF result.payload = "papers" THEN "none"
    ELSE IF result.payload \in {"data", "raw_text"}
    THEN CASE DataShape(body) = "dict" -> "TypeError"
           [] DataShape(body) = "str" -> "AttributeError"
           [] OTHER -> "none"
    ELSE "none"

\* Lines 220-223: the formatter of the service; format_arxiv_papers reads the
\* papers with defaults and raises nothing.
FormatResult(service_name, result, body) ==
    IF NameHas(service_name, "arxiv") THEN "none"
    ELSE format_generic_results(result, body)

\* ---- the steps of run_fast_system ----
\* run_fast_system is called: lines 110-129, up to the POST to discovery made
\* on a client of its own.
RunFastSystem(user_query) ==
    /\ f_pc = "idle"
    /\ f_pc' = "discovering"
    /\ f_user_query' = user_query
    /\ f_client' = "open"
    /\ f_metadata' = NoMetadata
    /\ UNCHANGED <<f_discovery, f_intents, f_exception, f_call, f_sent, f_response,
                   f_error_str, f_formatted_response>>
    /\ UNCHANGED notFast

\* The POST to discovery ends without a service to call: an exception of
\* lines 129-135 or 145, or a service without intents (lines 146-150).
DiscoveryFails(reply) ==
    /\ f_pc = "discovering"
    /\ \/ DiscoveryException(reply) # "none"
       \/ reply.body = "service_null"
       \/ reply.body = "service" /\ reply.intents = <<>>
    /\ f_client' = "closed"
    /\ f_discovery' = reply
    /\ LET exc == IF DiscoveryException(reply) # "none" THEN DiscoveryException(reply)
                  ELSE IF reply.body = "service_null" THEN "AttributeError"
                  ELSE "none"
           text == IF exc = "none" THEN "Error: Service has no intents available"
                   ELSE OuterHandler(exc, reply.status)
       IN  IF text = "uncaught"
           THEN /\ f_pc' = "raised"
                /\ f_exception' = exc
                /\ UNCHANGED <<f_metadata, f_formatted_response>>
           ELSE /\ f_pc' = "returned"
                /\ f_metadata' =
                       [f_metadata EXCEPT
                            !.service_name =
                                IF reply.body = "service" THEN reply.service.name
                                ELSE NoneVal,
                            !.error = text]
                /\ f_formatted_response' = text
                /\ UNCHANGED f_exception
    /\ UNCHANGED <<f_user_query, f_intents, f_call, f_sent, f_response, f_error_str>>
    /\ UNCHANGED notFast

\* The POST to discovery returns a service with intents; lines 136-198: the
\* parameters are built and invoke is called on the first intent, which
\* builds the request and hands it to the HTTP client, or raises at once.
RunFastSystemInvokes(service, intents) ==
    /\ f_pc = "discovering"
    /\ intents # <<>>
    /\ LET intent == FirstIntent(intents)
           call == [service |-> service, intent |-> intent,
                    parameters |-> FastParameters(service.name, f_user_query)]
           built == BuildRequest(api_keys, call)
           sent == Dispatch(intent.http_method, built)
       IN  /\ f_call' = call
           /\ f_sent' = sent
           /\ IF sent = <<>>
              THEN /\ f_pc' = "returned"
                   /\ f_error_str' = {"Failed to invoke", service.name,
                                      "Unsupported HTTP method"}
                   /\ f_formatted_response' = FormatInvokeError(f_error_str')
                   /\ f_metadata' =
                          [service_name |-> service.name,
                           intent_name |-> intent.intent_name,
                           success |-> FALSE, error |-> f_formatted_response']
              ELSE /\ f_pc' = "awaiting"
                   /\ f_metadata' =
                          [service_name |-> service.name,
                           intent_name |-> intent.intent_name,
                           success |-> FALSE, error |-> NoneVal]
                   /\ UNCHANGED <<f_error_str, f_formatted_response>>
    /\ f_client' = "closed"
    /\ f_discovery' = [kind |-> "response", status |-> 200, body |-> "service",
                       service |-> service, intents |-> intents]
    /\ f_intents' = intents
    /\ UNCHANGED <<f_user_query, f_exception, f_response>>
    /\ UNCHANGED notFast

\* The HTTP call of invoke ends; invoke returns or raises (lines 143-167 of
\* service_invoker.py) and run_fast_system returns the text for the user
\* (lines 200-242).  invoke returns no result whose "success" is false; an
\* exception of the formatter is handled like one of invoke.
FastHttpResponds(resp) ==
    /\ f_pc = "awaiting"
    /\ LET out == HandleResponse(resp, f_call.service.name,
                                  f_call.intent.intent_name, Last(f_sent))
           format_error ==
               IF out.raised THEN "none"
               ELSE FormatResult(f_call.service.name, out.result, resp.body)
       IN  IF out.raised \/ format_error # "none"
           THEN /\ f_error_str' = IF out.raised
                                  THEN {out.error.prefix} \cup out.error.message
                                  ELSE {format_error}
                /\ f_formatted_response' = FormatInvokeError(f_error_str')
                /\ f_metadata' = [f_metadata EXCEPT !.error = f_formatted_response']
           ELSE /\ f_error_str' = {}
                /\ f_formatted_response' = "results"
                /\ f_metadata' = [f_metadata EXCEPT !.success = out.result.success]
    /\ f_response' = [kind |-> resp.kind, status |-> resp.status]
    /\ f_pc' = "returned"
    /\ UNCHANGED <<f_user_query, f_client, f_discovery, f_intents, f_exception,
                   f_call, f_sent>>
    /\ UNCHANGED notFast

\* The upstream answers 302 with a Location and the client of invoke follows
\* it.
FastHttpRedirects ==
    /\ f_pc = "awaiting"
    /\ Len(f_sent) <= MaxRedirects
    /\ f_sent' = Append(f_sent, RedirectRequest(Last(f_sent)))
    /\ UNCHANGED <<f_pc, f_user_query, f_client, f_discovery, f_intents, f_metadata,
                   f_exception, f_call, f_response, f_error_str,
                   f_formatted_response>>
    /\ UNCHANGED notFast

\* Line 230: `except Exception as invoke_error`, around the invoke call and
\* the formatting.
InnerHandles(exc) == IsException(exc)

\* The caller cancels the task while it is suspended on a network call:
\* asyncio raises CancelledError at the await, which goes through the
\* handlers of the try blocks around it; leaving the `async with` of line 124
\* closes the client.
FastCancelled ==
    /\ f_pc \in {"discovering", "awaiting"}
    /\ IF f_pc = "awaiting" /\ InnerHandles("CancelledError")
       THEN /\ f_pc' = "returned"
            /\ f_formatted_response' = FormatInvokeError({})
            /\ f_metadata' = [f_metadata EXCEPT !.error = f_formatted_response']
            /\ UNCHANGED f_exception
       ELSE IF OuterHandler("CancelledError", 0) # "uncaught"
       THEN /\ f_pc' = "returned"
            /\ f_formatted_response' = OuterHandler("CancelledError", 0)
            /\ f_metadata' = [f_metadata EXCEPT !.error = f_formatted_response']
            /\ UNCHANGED f_exception
       ELSE /\ f_pc' = "raised"
            /\ f_exception' = "CancelledError"
            /\ UNCHANGED <<f_metadata, f_formatted_response>>
    /\ f_client' = IF f_pc = "discovering" THEN "closed" ELSE f_client
    /\ UNCHANGED <<f_user_query, f_discovery, f_intents, f_call, f_sent, f_response,
                   f_error_str>>
    /\ UNCHANGED notFast

FastInit ==
    /\ f_pc = "idle"
    /\ f_user_query = NoneVal
    /\ f_client = "none"
    /\ f_discovery = NoDiscovery
    /\ f_intents = <<>>
    /\ f_metadata = NoMetadata
    /\ f_exception = "none"
    /\ f_call = NoCall
    /\ f_sent = <<>>
    /\ f_response = [kind |-> "none", status |-> 0]
    /\ f_error_str = {}
    /\ f_formatted_response = NoText

FastNext ==
    \/ \E user_query \in UserQueries : RunFastSystem(user_query)
    \/ \E reply \in DiscoveryReplies : DiscoveryFails(reply)
    \/ \E service \in FastServices, intents \in FastIntentLists :
           RunFastSystemInvokes(service, intents)
    \/ \E resp \in HttpResponses : FastHttpResponds(resp)
    \/ FastHttpRedirects
    \/ FastCancelled

\* ------------------------------------------------------------------------
\* main.py: discover_endpoint and invoke_endpoint
\* ------------------------------------------------------------------------
\* fastapi.HTTPException derives from Exception.
HttpExceptionClass == "HTTPException"

\* Lines 168-182: the handlers of discover_endpoint; the status of the
\* HTTPException they raise for an exception of the try body, 0 for an
\* exception none of them handles.
DiscoverHandler(exc, status) ==
    IF exc = "HTTPStatusError" THEN status
    ELSE IF exc \in {"ConnectError", "TimeoutException"} THEN 503
    ELSE IF IsException(exc) THEN 500
    ELSE 0

\* Lines 340-342: the handler of the outer try of invoke_endpoint.
InvokeHandler(exc) == IF IsException(exc) THEN 500 ELSE 0

\* Lines 199-202: the position of the first intent of that name, 0 for none.
FindIntent(intents, intent_name) ==
    IF \E k \in 1..Len(intents) : intents[k].intent_name = intent_name
    THEN CHOOSE k \in 1..Len(intents) :
             /\ intents[k].intent_name = intent_name
             /\ \A j \in 1..(k - 1) : intents[j].intent_name # intent_name
    ELSE 0

\* format_result (lines 347-384): the exception it raises on a result of
\* invoke, "none" if it returns a text; the items are read as in
\* format_generic_results.
format_result(result, body) ==
    IF result.payload = "papers" THEN "none"
    ELSE format_generic_results(result, body)

\* POST /chat/discover: lines 132-182, the POST to discovery included.
DiscoverEndpoint(reply) ==
    /\ c_pc = "idle"
    /\ c_pc' = "responded"
    /\ c_endpoint' = "discover"
    /\ c_discovery' = reply
    /\ c_intents' = reply.intents
    /\ LET no_intents == reply.body = "service" /\ reply.intents = <<>>
           exc == IF DiscoveryException(reply) # "none" THEN DiscoveryException(reply)
                  ELSE IF reply.body = "service_null" THEN "AttributeError"
                  ELSE IF no_intents THEN HttpExceptionClass
                  ELSE "none"
       IN  /\ c_raised' = IF no_intents THEN 404 ELSE 0
           /\ c_status' = IF exc = "none" THEN 200 ELSE DiscoverHandler(exc, reply.status)
           /\ c_intent_name' = IF exc = "none" THEN FirstIntent(reply.intents).intent_name
                               ELSE c_intent_name
           /\ c_success' = (exc = "none")
    /\ UNCHANGED <<c_invocations, c_call, c_sent>>
    /\ UNCHANGED notChat

\* POST /chat/invoke, with no parameters in the request: lines 194-243, up
\* to the HTTP call of invoke, or to the response when the intent is not
\* found or invoke raises at once.
InvokeEndpoint(query, service, intents, intent_name) ==
    /\ c_pc = "idle"
    /\ c_endpoint' = "invoke"
    /\ c_intents' = intents
    /\ c_intent_name' = intent_name
    /\ LET k == FindIntent(intents, intent_name)
       IN  IF k = 0
           THEN /\ c_raised' = 404
                /\ c_status' = InvokeHandler(HttpExceptionClass)
                /\ c_pc' = "responded"
                /\ UNCHANGED <<c_invocations, c_call, c_sent, c_success>>
           ELSE LET call == [service |-> service, intent |-> intents[k],
                             parameters |-> FastParameters(service.name, query)]
                    built == BuildRequest(api_keys, call)
                    sent == Dispatch(intents[k].http_method, built)
                IN  /\ c_invocations' = c_invocations + 1
                    /\ c_call' = call
                    /\ c_sent' = sent
                    /\ c_raised' = 0
                    /\ IF sent = <<>>
                       THEN /\ c_pc' = "responded"
                            /\ c_status' = 200
                            /\ c_success' = FALSE
                       ELSE /\ c_pc' = "awaiting"
                            /\ UNCHANGED <<c_status, c_success>>
    /\ UNCHANGED c_discovery
    /\ UNCHANGED notChat

\* The HTTP call of invoke ends: lines 249-338; a result and an exception of
\* invoke or of format_result are all answered with a ChatbotResponse.
InvokeEndpointResponds(resp) ==
    /\ c_pc = "awaiting"
    /\ LET out == HandleResponse(resp, c_call.service.name,
                                  c_call.intent.intent_name, Last(c_sent))
           format_error ==
               IF out.raised THEN "none"
               ELSE IF NameHas(c_call.service.name, "arxiv")
                       /\ out.result.payload = "papers"
                       /\ Papers(resp.body) # <<>>
               THEN "none"
               ELSE format_result(out.result, resp.body)
       IN  c_success' = (~out.raised /\ format_error = "none")
    /\ c_status' = 200
    /\ c_pc' = "responded"
    /\ UNCHANGED <<c_endpoint, c_discovery, c_intents, c_intent_name, c_raised,
                   c_invocations, c_call, c_sent>>
    /\ UNCHANGED notChat

\* The upstream answers 302 with a Location and the client of invoke follows
\* it.
ChatHttpRedirects ==
    /\ c_pc = "awaiting"
    /\ Len(c_sent) <= MaxRedirects
    /\ c_sent' = Append(c_sent, RedirectRequest(Last(c_sent)))
    /\ UNCHANGED <<c_pc, c_endpoint, c_discovery, c_intents, c_intent_name, c_raised,
                   c_invocations, c_call, c_status, c_success>>
    /\ UNCHANGED notChat

ChatInit ==
    /\ c_pc = "idle"
    /\ c_endpoint = "none"
    /\ c_discovery = NoDiscovery
    /\ c_intents = <<>>
    /\ c_intent_name = NoneVal
    /\ c_raised = 0
    /\ c_invocations = 0
    /\ c_call = NoCall
    /\ c_sent = <<>>
    /\ c_status = 0
    /\ c_success = FALSE

ChatNext ==
    \/ \E reply \in DiscoveryReplies : DiscoverEndpoint(reply)
    \/ \E query \in UserQueries, service \in FastServices,
          intents \in FastIntentLists, intent_name \in IntentNames :
           InvokeEndpoint(query, service, intents, intent_name)
    \/ \E resp \in HttpResponses : InvokeEndpointResponds(resp)
    \/ ChatHttpRedirects

\* ------------------------------------------------------------------------
\* DiscoveryLogic._find_service_by_name (discoveryLogic.py)
\* ------------------------------------------------------------------------
\* The longest name and name query the model draws.
MaxNameLen == 3

\* cutoff=0.6 of the get_close_matches call, in tenths.
CutoffTenths == 6

\* A string is the sequence of its characters.  Names are written with the
\* letters a and b; a name may start with a capital A.
LowerLetters == {"a", "b"}

Capitalised(s) ==
    [i \in 1..Len(s) |-> IF i = 1 /\ s[i] = "a" THEN "A" ELSE s[i]]

LowerNames == UNION { [1..k -> LowerLetters] : k \in 0..MaxNameLen }

Names == LowerNames \cup { Capitalised(s) : s \in LowerNames }

\* services, by the "name" of each service, in the order getServices gave them.
Catalogues ==
    {<<>>} \cup { <<x>> : x \in Names } \cup { <<x, y>> : x \in Names, y \in Names }

\* str.lower()
LowerChar(c) == IF c = "A" THEN "a" ELSE IF c = "B" THEN "b" ELSE c

Lower(s) == [i \in 1..Len(s) |-> LowerChar(s[i])]

\* x in y, for strings
IsSubstring(x, y) ==
    \E i \in 0..(Len(y) - Len(x)) : \A j \in 1..Len(x) : y[i + j] = x[j]

\* The code point of a character, which orders strings.
Ord(c) == CASE c = "A" -> 65 [] c = "B" -> 66 [] c = "a" -> 97 [] OTHER -> 98

RECURSIVE StrLess(_, _)
StrLess(x, y) ==
    IF x = <<>> THEN y # <<>>
    ELSE IF y = <<>> THEN FALSE
    ELSE IF x[1] = y[1] THEN StrLess(Tail(x), Tail(y))
    ELSE Ord(x[1]) < Ord(y[1])

Least(S) == CHOOSE x \in S : \A y \in S : x <= y

\* a[i:i+k] == b[j:j+k], with Python's 0-based indices
BlockAt(a, b, i, j, k) == \A d \in 1..k : a[i + d] = b[j + d]

\* Block t is at least as good as block u: longer, or as long and starting
\* earlier in a, or as long, starting there and not later in b.
PreferredBlock(t, u) ==
    \/ t[3] > u[3]
    \/ t[3] = u[3] /\ t[1] < u[1]
    \/ t[3] = u[3] /\ t[1] = u[1] /\ t[2] <= u[2]

\* SequenceMatcher.find_longest_match(alo, ahi, blo, bhi): the longest common
\* block <<i, j, k>>, the one starting earliest in a, and of those earliest in
\* b; <<alo, blo, 0>> when there is none.
find_longest_match(a, b, alo, ahi, blo, bhi) ==
    LET blocks == { t \in (alo..ahi) \X (blo..bhi) \X (0..(ahi - alo)) :
                       /\ t[1] + t[3] <= ahi
                       /\ t[2] + t[3] <= bhi
                       /\ BlockAt(a, b, t[1], t[2], t[3]) }
    IN  CHOOSE t \in blocks : \A u \in blocks : PreferredBlock(t, u)

\* The sum of the sizes of SequenceMatcher.get_matching_blocks(): the longest
\* block, then the same to its left and to its right.
RECURSIVE MatchingTotal(_, _, _, _, _, _)
MatchingTotal(a, b, alo, ahi, blo, bhi) ==
    CHOOSE total \in
        { IF m[3] = 0 THEN 0
          ELSE m[3]
               + (IF alo < m[1] /\ blo < m[2]
                      THEN MatchingTotal(a, b, alo, m[1], blo, m[2]) ELSE 0)
               + (IF m[1] + m[3] < ahi /\ m[2] + m[3] < bhi
                      THEN MatchingTotal(a, b, m[1] + m[3], ahi, m[2] + m[3], bhi)
                      ELSE 0) :
          m \in { find_longest_match(a, b, alo, ahi, blo, bhi) } } : TRUE

\* SequenceMatcher.ratio() = 2.0 * matches / length, kept as the fraction
\* <<2 * matches, length>>; 1.0 when both strings are empty.
ratio(a, b) ==
    IF Len(a) + Len(b) = 0 THEN <<1, 1>>
    ELSE <<2 * MatchingTotal(a, b, 0, Len(a), 0, Len(b)), Len(a) + Len(b)>>

\* ratio >= cutoff.  real_quick_ratio and quick_ratio are upper bounds of
\* ratio, so the three tests of get_close_matches come to this one.
AtLeastCutoff(r) == 10 * r[1] >= CutoffTenths * r[2]

RatioLess(r, s) == r[1] * s[2] < s[1] * r[2]

\* difflib.get_close_matches(word, possibilities, n=1, cutoff=0.6): the
\* largest (score, name) pair among those at or above the cutoff.
get_close_matches(word, possibilities) ==
    LET result == { i \in 1..Len(possibilities) :
                       AtLeastCutoff(ratio(possibilities[i], word)) }
        PairLess(i, j) ==
            LET ri == ratio(possibilities[i], word)
                rj == ratio(possibilities[j], word)
            IN  \/ RatioLess(ri, rj)
                \/ ri[1] * rj[2] = rj[1] * ri[2]
                   /\ StrLess(possibilities[i], possibilities[j])
    IN  IF result = {} THEN <<>>
        ELSE <<possibilities[CHOOSE i \in result :
                                 \A j \in result : ~PairLess(i, j)]>>

\* The partial tier tried before the exact one.
find_service_by_name_PartialFirst(services, name_query) ==
    LET name_lower == Lower(name_query)
        partial == { i \in 1..Len(services) :
                        \/ IsSubstring(name_lower, Lower(services[i]))
                        \/ IsSubstring(Lower(services[i]), name_lower) }
    IN  IF partial # {} THEN Least(partial) ELSE 0

\* _find_service_by_name: the position in services of the service returned,
\* 0 for None.
find_service_by_name(services, name_query) ==
    LET name_lower == Lower(name_query)
        exact == { i \in 1..Len(services) : Lower(services[i]) = name_lower }
        partial == { i \in 1..Len(services) :
                        \/ IsSubstring(name_lower, Lower(services[i]))
                        \/ IsSubstring(Lower(services[i]), name_lower) }
        matches == get_close_matches(name_query, services)
    IN  IF exact # {} THEN Least(exact)
        ELSE IF partial # {} THEN Least(partial)
        ELSE IF matches # <<>>
            THEN Least({ i \in 1..Len(services) : services[i] = matches[1] })
        ELSE 0

\* _find_service_by_name(services, name_query) runs and returns.
FindServiceByName ==
    /\ d_pc = "called"
    /\ d_pc' = "returned"
    /\ d_returned' = find_service_by_name(d_services, d_name_query)
    /\ UNCHANGED <<d_services, d_name_query>>
    /\ UNCHANGED notDiscovery

\* A call of _find_service_by_name with any catalogue and any name.
DiscoveryInit ==
    /\ d_pc = "called"
    /\ d_services \in Catalogues
    /\ d_name_query \in Names
    /\ d_returned = 0

DiscoveryNext == FindServiceByName

\* ------------------------------------------------------------------------
\* POST /discover: discoveryController.discover_service over
\* DiscoveryLogic.discover_service
\* ------------------------------------------------------------------------
\* The reply texts of the model:
\*   json_answer       '{"answer": "ab"}'
\*   fenced_json       '{"answer": "Ab"}' on a line of its own inside a json code fence
\*                     (three backticks; a backtick is written "backtick" below)
\*   unquoted_answer   '{answer: ab}'
\*   bare_name         'ab'
\*   empty_answer      '{"answer": ""}'
\*   number_answer     '{"answer": 5}'
\*   empty_text        ''
\*   json_list         '["ab"]'
\*   open_quote        'answer:  "'
\*   answer_on_line_2  'bb\nanswer: ab'
\*   unknown_name      '{"answer": "bbbb"}'
Replies ==
    { "json_answer", "fenced_json", "unquoted_answer", "bare_name", "empty_answer",
      "number_answer", "empty_text", "json_list", "open_quote", "answer_on_line_2", "unknown_name" }

\* json.loads(clean) of lines 157-162: the text is not JSON, is JSON without an
\* "answer" member, or has an "answer" that is a string (kept stripped) or is not.
JsonLoads(reply) ==
    CASE reply = "json_answer" -> [kind |-> "answer_str", answer |-> <<"a", "b">>]
      [] reply = "fenced_json" -> [kind |-> "answer_str", answer |-> <<"A", "b">>]
      [] reply = "empty_answer" -> [kind |-> "answer_str", answer |-> <<>>]
      [] reply = "number_answer" -> [kind |-> "answer_nonstr", answer |-> <<>>]
      [] reply = "json_list" -> [kind |-> "no_answer", answer |-> <<>>]
      [] reply = "unknown_name" -> [kind |-> "answer_str", answer |-> <<"b", "b", "b", "b">>]
      [] OTHER -> [kind |-> "invalid", answer |-> <<>>]

\* re.search of lines 168-172 and match.group(1).strip() of line 174.
AnswerPattern(reply) ==
    CASE reply = "json_answer" -> [matched |-> TRUE, group |-> <<"a", "b">>]
      [] reply = "fenced_json" -> [matched |-> TRUE, group |-> <<"A", "b">>]
      [] reply = "unquoted_answer" -> [matched |-> TRUE, group |-> <<"a", "b">>]
      [] reply = "empty_answer" -> [matched |-> TRUE, group |-> <<>>]
      [] reply = "number_answer" -> [matched |-> TRUE, group |-> <<"5">>]
      [] reply = "open_quote" -> [matched |-> TRUE, group |-> <<>>]
      [] reply = "answer_on_line_2" -> [matched |-> TRUE, group |-> <<"a", "b">>]
      [] reply = "unknown_name" -> [matched |-> TRUE, group |-> <<"b", "b", "b", "b">>]
      [] OTHER -> [matched |-> FALSE, group |-> <<>>]

\* Lines 177-178: the first line, stripped of braces, quotes and blanks.
FirstLineCleaned(reply) ==
    CASE reply = "json_answer" -> <<"a", "n", "s", "w", "e", "r", "\"", ":", " ", "\"", "a", "b">>
      [] reply = "fenced_json" -> <<"backtick", "backtick", "backtick", "j", "s", "o", "n">>
      [] reply = "unquoted_answer" -> <<"a", "n", "s", "w", "e", "r", ":", " ", "a", "b">>
      [] reply = "bare_name" -> <<"a", "b">>
      [] reply = "empty_answer" -> <<"a", "n", "s", "w", "e", "r", "\"", ":">>
      [] reply = "number_answer" -> <<"a", "n", "s", "w", "e", "r", "\"", ":", " ", "5">>
      [] reply = "json_list" -> <<"[", "\"", "a", "b", "\"", "]">>
      [] reply = "open_quote" -> <<"a", "n", "s", "w", "e", "r", ":">>
      [] reply = "answer_on_line_2" -> <<"b", "b">>
      [] reply = "unknown_name" -> <<"a", "n", "s", "w", "e", "r", "\"", ":", " ", "\"", "b", "b", "b", "b">>
      [] OTHER -> <<>>

NameReturned(value) == [raised |-> FALSE, value |-> value, error |-> "none"]
NameRaised(error) == [raised |-> TRUE, value |-> <<>>, error |-> error]
NoName == NameRaised("unset")

\* DiscoveryLogic._parse_llm_response
parse_llm_response(reply) ==
    LET parsed == JsonLoads(reply)
        match == AnswerPattern(reply)
    IN  IF parsed.kind = "answer_str" THEN NameReturned(parsed.answer)
        ELSE IF parsed.kind = "answer_nonstr" THEN NameRaised("AttributeError")
        ELSE IF match.matched THEN NameReturned(match.group)
        ELSE NameReturned(FirstLineCleaned(reply))

\* What the POST to Ollama's /api/generate can come to: a transport error, a
\* status, and with status 200 a body that is not JSON, is a JSON list, is an
\* object without "response", with a null "response" or with a reply text.
LlmBodies == {"not_json", "json_list", "no_response_key", "response_null", "response_str"}

LlmOutcomes ==
    { [kind |-> k, status |-> 0, body |-> "none", reply |-> "none"] :
          k \in {"ConnectError", "TimeoutException"} }
    \cup { [kind |-> "response", status |-> st, body |-> "none", reply |-> "none"] :
               st \in {404, 500} }
    \cup { [kind |-> "response", status |-> 200, body |-> b, reply |-> "none"] :
               b \in LlmBodies \ {"response_str"} }
    \cup { [kind |-> "response", status |-> 200, body |-> "response_str", reply |-> r] :
               r \in Replies }

NoLlmOutcome == [kind |-> "none", status |-> 0, body |-> "none", reply |-> "none"]

\* DiscoveryLogic._call_llm_for_selection, from the reply of the POST on.
call_llm_for_selection(o) ==
    IF o.kind # "response" THEN NameRaised("RuntimeError")
    ELSE IF o.status # 200 THEN NameRaised("RuntimeError")
    ELSE IF o.body = "not_json" THEN NameRaised("JSONDecodeError")
    ELSE IF o.body = "json_list" THEN NameRaised("AttributeError")
    ELSE IF o.body = "no_response_key" THEN parse_llm_response("empty_text")
    ELSE IF o.body = "response_null" THEN NameRaised("AttributeError")
    ELSE parse_llm_response(o.reply)

\* json.JSONDecodeError is a subclass of ValueError.
IsValueError(error) == error \in {"ValueError", "JSONDecodeError"}

\* The except clauses of the controller, lines 63-80.
StatusFor(error) ==
    IF error = "none" THEN 200
    ELSE IF IsValueError(error) THEN 404
    ELSE IF error = "RuntimeError" THEN 503
    ELSE 500

\* The catalogues the discovery service is run with: up to two services with
\* these names.
RegisteredNames ==
    { <<"a", "b">>, <<"A", "b", "b">>, <<"a", "a", "a">>, <<"b", "b">> }

RegisteredCatalogues ==
    { c \in Catalogues : \A i \in 1..Len(c) : c[i] \in RegisteredNames }

\* POST /discover arrives: lines 37-46 of discover_service.
DiscoverRequest ==
    /\ e_pc = "idle"
    /\ IF e_services = <<>>
       THEN /\ e_pc' = "responded"
            /\ e_error' = "ValueError"
            /\ e_status' = StatusFor("ValueError")
            /\ UNCHANGED e_llm_calls
       ELSE /\ e_pc' = "awaiting_llm"
            /\ e_llm_calls' = e_llm_calls + 1
            /\ UNCHANGED <<e_error, e_status>>
    /\ UNCHANGED <<e_services, e_llm, e_selected_name, e_service>>
    /\ UNCHANGED notEndpoint

\* The POST to Ollama ends: the rest of _call_llm_for_selection, lines 48-58
\* of discover_service and the controller's reply.
LlmResponds(o) ==
    /\ e_pc = "awaiting_llm"
    /\ LET selected_name == call_llm_for_selection(o)
           selected_service ==
               IF selected_name.raised THEN 0
               ELSE find_service_by_name(e_services, selected_name.value)
           error == IF selected_name.raised THEN selected_name.error
                    ELSE IF selected_service = 0 THEN "ValueError"
                    ELSE "none"
       IN  /\ e_llm' = o
           /\ e_selected_name' = selected_name
           /\ e_service' = selected_service
           /\ e_error' = error
           /\ e_status' = StatusFor(error)
    /\ e_pc' = "responded"
    /\ UNCHANGED <<e_services, e_llm_calls>>
    /\ UNCHANGED notEndpoint

\* The discovery service with any catalogue, before a request.
EndpointInit ==
    /\ e_pc = "idle"
    /\ e_services \in RegisteredCatalogues
    /\ e_llm_calls = 0
    /\ e_llm = NoLlmOutcome
    /\ e_selected_name = NoName
    /\ e_error = "none"
    /\ e_status = 0
    /\ e_service = 0

EndpointNext ==
    \/ DiscoverRequest
    \/ \E o \in LlmOutcomes : LlmResponds(o)

\* ------------------------------------------------------------------------
\* Specifications
\* ------------------------------------------------------------------------
\* The state of a component no call has been made to.
InvokeIdle == InvokeInit /\ api_keys = << <<"openweathermap.org", "demo_key">> >>

DiscoveryIdle == d_services = <<>> /\ d_name_query = <<>> /\ DiscoveryInit

EndpointIdle == e_services = <<>> /\ EndpointInit

\* No call made yet, on an invoker built with the default key table.
Idle ==
    GuardInit /\ TwoAgentInit /\ InvokeIdle /\ DiscoveryIdle /\ EndpointIdle /\ FastInit /\ ChatInit

\* No call made yet, on an invoker built in any environment.
IdleAnyInvoker ==
    GuardInit /\ TwoAgentInit /\ InvokeInit /\ DiscoveryIdle /\ EndpointIdle /\ FastInit /\ ChatInit

\* _find_service_by_name called with any catalogue and any name.
NameLookupCalled ==
    GuardInit /\ TwoAgentInit /\ InvokeIdle /\ DiscoveryInit /\ EndpointIdle /\ FastInit /\ ChatInit

\* The discovery service up with any catalogue.
IdleAnyCatalogue ==
    GuardInit /\ TwoAgentInit /\ InvokeIdle /\ DiscoveryIdle /\ EndpointInit /\ FastInit /\ ChatInit

SpecGuard == Idle /\ [][GuardNext]_vars

SpecTwoAgent == Idle /\ [][TwoAgentNext]_vars

SpecInvoke == IdleAnyInvoker /\ [][InvokeNext]_vars

SpecDiscovery == NameLookupCalled /\ [][DiscoveryNext]_vars

SpecEndpoint == IdleAnyCatalogue /\ [][EndpointNext]_vars

\* run_fast_system on an invoker built in any environment.
SpecFast == IdleAnyInvoker /\ [][FastNext]_vars

\* One query at a time, taking either path: chat_with_retry or
\* run_fast_system.
EitherPathNext ==
    \/ f_pc = "idle" /\ GuardNext
    \/ g_pc = "idle" /\ FastNext

SpecEitherPath == IdleAnyInvoker /\ [][EitherPathNext]_vars

SpecChat == IdleAnyInvoker /\ [][ChatNext]_vars

\* ------------------------------------------------------------------------
\* Properties of chat_with_retry
\* ------------------------------------------------------------------------
\* What the specification calls a verified attempt: the trace records the
\* invocation tool and the text carries no fabrication marker.
TraceRecordsInvoke(h) == \E i \in 1..Len(h.tools) : h.tools[i] = "invoke_service"

FabricationMarkerPresent(h) ==
    \/ MarkerPdf \in h.text.has /\ MarkerPapers \in h.text.has
    \/ MarkerLost \in h.text.has

VerifiedRun(h) ==
    h.kind = "response" /\ TraceRecordsInvoke(h) /\ ~FabricationMarkerPresent(h)

Finished == g_pc \in {"returned", "raised"}

FirstTraceEmpty == Len(hist) >= 1 /\ hist[1].kind = "response" /\ hist[1].tools = <<>>

RetryThenVerify ==
    /\ FirstTraceEmpty => Len(prompts) >= 2 /\ prompts[2] = HintedQuery
    /\ (FirstTraceEmpty /\ Len(hist) >= 2 /\ VerifiedRun(hist[2])) =>
           /\ g_pc = "returned"
           /\ g_ret = hist[2].text
           /\ g_ret.run = 2
           /\ Len(prompts) = 2

\* C2 as stated: whenever attempt 1 produces a response with an empty tool-call
\* trace, the agent is run a second time with the strengthened prompt, and a
\* verified second run is returned without a third run.
C2_RetryThenVerify_AnyCeiling == RetryThenVerify

\* C2 as amended: the same, for a call whose retry ceiling max_retries is at
\* least 1 (with max_retries = 0 the first response is returned as it is).
C2_RetryThenVerify == max_retries >= 1 => RetryThenVerify

C2_Witness ==
    /\ max_retries >= 1
    /\ FirstTraceEmpty
    /\ Len(hist) = 2
    /\ VerifiedRun(hist[2])
    /\ g_pc = "returned"

\* C3: before the retry ceiling is reached (attempt < max_retries), the function
\* returns only a verified attempt's response, and every attempt that produced an
\* unverified response is followed by another agent run instead of a return.
C3_ReturnOnlyVerifiedBeforeCeiling ==
    \A k \in 1..Len(hist) :
        k - 1 < max_retries =>
            /\ (k = Len(hist) /\ g_pc = "returned") =>
                   VerifiedRun(hist[k]) /\ g_ret = hist[k].text
            /\ (hist[k].kind = "response" /\ ~VerifiedRun(hist[k])) =>
                   Len(prompts) >= k + 1

C3_Witness ==
    /\ Len(hist) = 2
    /\ max_retries = 2
    /\ hist[1].kind = "response"
    /\ TraceRecordsInvoke(hist[1])
    /\ FabricationMarkerPresent(hist[1])
    /\ VerifiedRun(hist[2])
    /\ g_pc = "returned"

NoRunVerified == \A k \in 1..Len(hist) : ~VerifiedRun(hist[k])

SomeRunResponded == \E k \in 1..Len(hist) : hist[k].kind = "response"

\* C4 as stated: when the call has ended with no attempt verified and at least
\* one attempt having produced a response, it has returned the last-produced
\* response and has not raised.
C4_ExhaustedNeverRaises ==
    (Finished /\ NoRunVerified /\ SomeRunResponded) =>
        g_pc = "returned" /\ g_ret = response_text

\* C4 as amended: a call that ends with no attempt verified ends at the retry
\* ceiling; if the final attempt produced a response, that response is returned,
\* and if the final attempt raised, the exception propagates whatever earlier
\* attempts produced.
C4_ExhaustedReturnsFinalResponse ==
    (Finished /\ NoRunVerified) =>
        /\ Len(hist) = max_retries + 1
        /\ hist[Len(hist)].kind = "response" =>
               g_pc = "returned" /\ g_ret = hist[Len(hist)].text
        /\ hist[Len(hist)].kind = "raised" => g_pc = "raised" /\ g_ret = NoValue

C4_Witness ==
    /\ g_pc = "returned"
    /\ NoRunVerified
    /\ max_retries = 2
    /\ Len(hist) = 3
    /\ hist[1].kind = "raised"
    /\ hist[2].kind = "response"
    /\ hist[3].kind = "response"

GuardBounded ==
    /\ Len(prompts) <= max_retries + 1
    /\ attempt <= max_retries
    /\ g_pc = "running" => Len(hist) = attempt /\ Len(prompts) = attempt + 1
    /\ Len(hist) = max_retries + 1 => Finished
    /\ g_pc = "returned" => g_ret # NoValue
    /\ g_pc = "raised" => g_ret = NoValue

\* C5: the agent is run at most max_retries + 1 times, the attempt counter never
\* decreases and never exceeds the ceiling, and after max_retries + 1 finished
\* runs the call has ended in exactly one of return or raise.
C5_BoundedRetries == [](GuardBounded) /\ [][attempt' >= attempt]_vars

C5_Witness ==
    /\ max_retries = MaxRetriesBound
    /\ Len(hist) = max_retries + 1
    /\ attempt = max_retries
    /\ g_pc = "raised"

\* ------------------------------------------------------------------------
\* Properties of run_two_agent_system
\* ------------------------------------------------------------------------
\* C6: a formatted response of an invocation-agent run whose trace records no
\* invoke_service call is returned only after the run was retried up to the
\* ceiling of the hallucination guard.
C6_TwoAgentWrappedByGuard ==
    (t_pc = "returned" /\ t_ret.kind = "formatted" /\ ~t_called_tool) =>
        t_runs = DefaultMaxRetries + 1

\* ------------------------------------------------------------------------
\* Properties of GenericServiceInvoker.invoke
\* ------------------------------------------------------------------------
\* invoke has built its request: the HTTP call is pending, or the method was
\* refused after the buckets were filled.
RequestBuilt ==
    i_pc = "awaiting" \/ (i_pc = "raised" /\ i_error.cause = "ValueError")

InvokeEnded == i_pc \in {"returned", "raised"} /\ i_response.kind # "none"

Got2xx == i_response.kind = "response" /\ i_response.status \in 200..299

\* The body does not parse in the branch its content type selects.
ParseFailsOnBranch ==
    \/ /\ i_response.content_type \in {"application/atom+xml", "text/xml"}
       /\ i_response.body \notin {"atom_feed", "xml_doc", "xml_feed_text"}
    \/ /\ i_response.content_type = "application/json"
       /\ i_response.body \notin {"json_object", "json_array"}

\* C1: for every HTTP 2xx response invoke returns a result with a boolean
\* success and does not raise, and a body that fails XML or JSON parsing yields
\* success = true with format = raw carrying the raw text.
C1_NormalizerTotal ==
    (InvokeEnded /\ Got2xx) =>
        /\ i_pc = "returned"
        /\ i_result.success \in BOOLEAN
        /\ ParseFailsOnBranch =>
               /\ i_result.success = TRUE
               /\ i_result.format = "raw"
               /\ i_result.payload = "raw_text"

KeyIn(dict) == \E k \in DOMAIN dict : dict[k] = "demo_key"

KeyResolvable ==
    /\ api_keys[1][2] = "demo_key"
    /\ i_call.service.service_url = "https://api.openweathermap.org/data/2.5"

IsSet(x) == x \notin {"None", ""}

AuthExclusiveIn(query, headers) ==
    LET svc == i_call.service
        byKey == svc.auth_type = "api_key"
    IN  /\ KeyIn(query) => byKey /\ IsSet(svc.auth_query_param)
        /\ KeyIn(headers) =>
               byKey /\ IsSet(svc.auth_header_name) /\ ~IsSet(svc.auth_query_param)
        /\ ~(KeyIn(query) /\ KeyIn(headers))
        /\ (byKey /\ KeyResolvable /\ IsSet(svc.auth_query_param)) =>
               /\ svc.auth_query_param \in DOMAIN query
               /\ query[svc.auth_query_param] = "demo_key"
        /\ (byKey /\ KeyResolvable /\ ~IsSet(svc.auth_query_param)
                  /\ IsSet(svc.auth_header_name)) =>
               /\ svc.auth_header_name \in DOMAIN headers
               /\ headers[svc.auth_header_name] = "demo_key"
        /\ ~byKey => ~KeyIn(query) /\ ~KeyIn(headers)

\* C7: once invoke has built the request, the API key is in the query bucket
\* only when auth_type is api_key and auth_query_param is set, in the header
\* bucket only when auth_header_name is set and auth_query_param is not, never
\* in both, and in neither for any other auth_type; a resolvable key is
\* injected where the set field names it.  The same holds of the request sent.
C7_AuthInjectionExclusive ==
    RequestBuilt =>
        /\ AuthExclusiveIn(i_built.query_params, i_built.headers)
        /\ i_pc = "awaiting" => AuthExclusiveIn(i_sent[1].params, i_sent[1].headers)

C7_Witness ==
    /\ i_pc = "awaiting"
    /\ i_call.service.auth_type = "api_key"
    /\ KeyResolvable
    /\ i_call.service.auth_query_param = "appid"
    /\ i_call.service.auth_header_name = "X-API-Key"
    /\ KeyIn(i_sent[1].params)

Placeholders == {"{a}", "{b}"}

PathSpecs ==
    { i \in 1..Len(i_call.intent.input_parameters) :
          i_call.intent.input_parameters[i].location = "path" }

Supplied(name) ==
    name \in DOMAIN i_call.parameters /\ i_call.parameters[name] # "None"

AllPathSpecsSupplied ==
    \A i \in PathSpecs : Supplied(i_call.intent.input_parameters[i].name)

\* No placeholder of endpoint_path is left in the URL.
NoPlaceholderLeft(url) ==
    \A j \in 1..Len(url) :
        url[j] \in Placeholders => url[j] \notin SeqRange(i_call.intent.endpoint_path)

\* C8 as stated: when every path-located ParameterSpec has a supplied value,
\* the dispatched URL holds no placeholder of endpoint_path.
C8_PathSubstitutionComplete_AnyPath ==
    (i_pc = "awaiting" /\ AllPathSpecsSupplied) => NoPlaceholderLeft(i_sent[1].url)

\* Every placeholder of endpoint_path is the name of a path-located ParameterSpec.
AllPlaceholdersDeclared ==
    \A j \in 1..Len(i_call.intent.endpoint_path) :
        i_call.intent.endpoint_path[j] \in Placeholders =>
            \E i \in PathSpecs :
                i_call.intent.endpoint_path[j] =
                    (IF i_call.intent.input_parameters[i].name = "a" THEN "{a}" ELSE "{b}")

NoPlaceholderValues ==
    \A i \in PathSpecs :
        LET name == i_call.intent.input_parameters[i].name
        IN  name \in DOMAIN i_call.parameters =>
                i_call.parameters[name] \notin Placeholders

\* C8 as amended: when every placeholder of endpoint_path names a path-located
\* ParameterSpec, every path-located ParameterSpec has a supplied value, and no
\* such value is itself placeholder text, the dispatched URL holds no
\* placeholder of endpoint_path.
C8_PathSubstitutionComplete ==
    (i_pc = "awaiting" /\ AllPathSpecsSupplied /\ AllPlaceholdersDeclared
                       /\ NoPlaceholderValues) =>
        NoPlaceholderLeft(i_sent[1].url)

C8_Witness ==
    /\ i_pc = "awaiting"
    /\ i_call.intent.endpoint_path = <<"/items/", "{a}", "/sub/", "{b}">>
    /\ PathSpecs = {1, 2}
    /\ AllPathSpecsSupplied
    /\ NoPlaceholderValues
    /\ i_sent[1].url = <<"http://export.arxiv.org/api", "/items/", "u", "/sub/", "u">>

RequiredSpecs ==
    { i \in 1..Len(i_call.intent.input_parameters) :
          i_call.intent.input_parameters[i].required }

AllRequiredSupplied ==
    \A i \in RequiredSpecs : Supplied(i_call.intent.input_parameters[i].name)

\* The parameter is part of the request handed to the HTTP client.
InRequest(spec, req) ==
    \/ spec.location = "query" /\ spec.name \in DOMAIN req.params
    \/ spec.location = "header" /\ spec.name \in DOMAIN req.headers
    \/ spec.location = "body" /\ req.has_json /\ spec.name \in DOMAIN req.json
    \/ spec.location = "path" /\ i_call.parameters[spec.name] \in SeqRange(req.url)

\* C9 as stated: when every required ParameterSpec is supplied a value, no
\* missing-required-parameter signal is emitted and every such parameter is
\* present in the outgoing request.
C9_RequiredSuppliedAllSent ==
    (i_pc = "awaiting" /\ AllRequiredSupplied) =>
        /\ i_missing = {}
        /\ \A i \in RequiredSpecs : InRequest(i_call.intent.input_parameters[i], i_sent[1])

\* The parameter is in the bucket its declared location names.
InBucket(spec, built) ==
    \/ spec.location = "query" /\ spec.name \in DOMAIN built.query_params
    \/ spec.location = "header" /\ spec.name \in DOMAIN built.headers
    \/ spec.location = "body" /\ spec.name \in DOMAIN built.body_params
    \/ spec.location = "path"
       /\ \E j \in 1..Len(built.path_params) : built.path_params[j][1] = spec.name

\* C9 as amended: when every required ParameterSpec is supplied a value, no
\* missing-required-parameter signal is emitted and every such parameter is in
\* the bucket of its declared location; in a dispatched request the query- and
\* header-located ones are present, and the body-located ones are present
\* exactly when the method is POST or PUT.
C9_RequiredSuppliedNeverMissing ==
    (RequestBuilt /\ AllRequiredSupplied) =>
        /\ i_missing = {}
        /\ \A i \in RequiredSpecs :
               LET spec == i_call.intent.input_parameters[i]
               IN  /\ InBucket(spec, i_built)
                   /\ (i_pc = "awaiting" /\ spec.location \in {"query", "header"}) =>
                          InRequest(spec, i_sent[1])
                   /\ (i_pc = "awaiting" /\ spec.location = "body") =>
                          (InRequest(spec, i_sent[1])
                               <=> i_call.intent.http_method \in {"POST", "PUT"})

C9_Witness ==
    /\ i_pc = "awaiting"
    /\ Len(i_call.intent.input_parameters) = 2
    /\ RequiredSpecs = {1, 2}
    /\ AllRequiredSupplied
    /\ i_call.intent.input_parameters[1].location = "body"
    /\ i_call.intent.input_parameters[2].location = "query"
    /\ i_call.intent.input_parameters[2].default = "d"
    /\ i_sent[1].params["b"] = "u"

\* ------------------------------------------------------------------------
\* Properties of _find_service_by_name
\* ------------------------------------------------------------------------
ExactMatches ==
    { i \in 1..Len(d_services) : Lower(d_services[i]) = Lower(d_name_query) }

SubstringMatches ==
    { i \in 1..Len(d_services) :
          \/ IsSubstring(Lower(d_name_query), Lower(d_services[i]))
          \/ IsSubstring(Lower(d_services[i]), Lower(d_name_query)) }

FuzzyMatches ==
    { i \in 1..Len(d_services) : AtLeastCutoff(ratio(d_services[i], d_name_query)) }

\* C10: _find_service_by_name returns an exact case-insensitive match if the
\* catalogue has one; otherwise a substring match (either direction) if it has
\* one; otherwise a service whose similarity ratio is at or above the cutoff if
\* it has one; otherwise None.
C10_TierPrecedence ==
    d_pc = "returned" =>
        /\ ExactMatches # {} => d_returned \in ExactMatches
        /\ (ExactMatches = {} /\ SubstringMatches # {}) =>
               d_returned \in SubstringMatches
        /\ (ExactMatches = {} /\ SubstringMatches = {} /\ FuzzyMatches # {}) =>
               d_returned \in FuzzyMatches
        /\ (ExactMatches = {} /\ SubstringMatches = {} /\ FuzzyMatches = {}) =>
               d_returned = 0

\* A substring match is returned although another entry has the higher ratio.
C10_Witness ==
    /\ d_pc = "returned"
    /\ ExactMatches = {}
    /\ d_returned \in SubstringMatches
    /\ \E i \in FuzzyMatches :
           /\ i \notin SubstringMatches
           /\ i < d_returned
           /\ RatioLess(ratio(d_services[d_returned], d_name_query),
                        ratio(d_services[i], d_name_query))

\* The tier the returned service was found in.
ReturnedTier ==
    IF ExactMatches # {} THEN ExactMatches
    ELSE IF SubstringMatches # {} THEN SubstringMatches
    ELSE FuzzyMatches

EqualRatio(i, j) ==
    /\ ~RatioLess(ratio(d_services[i], d_name_query), ratio(d_services[j], d_name_query))
    /\ ~RatioLess(ratio(d_services[j], d_name_query), ratio(d_services[i], d_name_query))

\* C11: within the tier that matched, no service earlier in the catalogue
\* matches equally to the one returned: in the exact and substring tiers no
\* earlier service matches, in the fuzzy tier no earlier service has the same
\* similarity ratio.
C11_TieBreakCatalogueOrder ==
    (d_pc = "returned" /\ d_returned # 0) =>
        \A i \in ReturnedTier :
            (i < d_returned /\ (ExactMatches # {} \/ SubstringMatches # {}
                                   \/ EqualRatio(i, d_returned))) => FALSE

\* ------------------------------------------------------------------------
\* Properties of POST /discover
\* ------------------------------------------------------------------------
LlmBackendFailed ==
    \/ e_llm.kind \in {"ConnectError", "TimeoutException"}
    \/ e_llm.kind = "response" /\ e_llm.status \notin 200..299
    \/ e_llm.kind = "response" /\ e_llm.status = 200 /\ e_llm.body = "not_json"

NoTierMatches ==
    /\ ~e_selected_name.raised
    /\ \A i \in 1..Len(e_services) :
           LET name == Lower(e_services[i])
               query == Lower(e_selected_name.value)
           IN  /\ name # query
               /\ ~IsSubstring(name, query)
               /\ ~IsSubstring(query, name)
               /\ ~AtLeastCutoff(ratio(e_services[i], e_selected_name.value))

\* C12: an empty catalogue is answered 404 without a call to the LLM, a name
\* that matches in no tier is answered 404, and every failure of the LLM
\* backend (unreachable, timeout, non-2xx status, undecodable reply body) is
\* answered 503.
C12_DiscoveryFailureKinds ==
    e_pc = "responded" =>
        /\ e_services = <<>> => (e_status = 404 /\ e_llm_calls = 0)
        /\ (e_services # <<>> /\ LlmBackendFailed) => e_status = 503
        /\ (e_services # <<>> /\ NoTierMatches) => e_status = 404

GotReplyText ==
    /\ e_pc = "responded"
    /\ e_llm.kind = "response"
    /\ e_llm.status = 200
    /\ e_llm.body = "response_str"

\* What the first strategy with a non-empty result gives for the reply text.
FirstNonEmpty(reply) ==
    IF JsonLoads(reply).kind = "answer_str" /\ JsonLoads(reply).answer # <<>>
        THEN JsonLoads(reply).answer
    ELSE IF AnswerPattern(reply).matched /\ AnswerPattern(reply).group # <<>>
        THEN AnswerPattern(reply).group
    ELSE FirstLineCleaned(reply)

\* C13: for every reply text _parse_llm_response does not raise and returns
\* what the first strategy with a non-empty result gives (JSON answer, then
\* answer pattern, then first line); a strategy that fails or gives an empty
\* string is passed over.
C13_ParseChainFirstNonEmpty ==
    GotReplyText =>
        /\ ~e_selected_name.raised
        /\ e_selected_name.value = FirstNonEmpty(e_llm.reply)

\* ------------------------------------------------------------------------
\* Properties of the errors invoke raises
\* ------------------------------------------------------------------------
HttpFailed ==
    i_pc = "raised" /\ i_response.kind = "response" /\ i_response.status \notin 200..299

TransportFailed ==
    i_pc = "raised" /\ i_response.kind \in {"ConnectError", "TimeoutException"}

\* What a caller sees of the kind of an error: its class and the fixed start of
\* its message.
ErrorKind(e) == <<e.type, e.prefix>>

TransportErrorKinds ==
    { ErrorKind(HandleResponse(r, "arXiv API", "search_papers",
                               [url |-> <<>>, params |-> EmptyDict]).error) :
          r \in { x \in HttpResponses : x.kind # "response" } }

\* C14: a non-2xx status makes invoke raise an error of a kind that no
\* transport failure raises, carrying the status code and the response text;
\* a transport failure raises an error of another kind.
C14_HttpAndTransportErrorsDistinct ==
    /\ HttpFailed =>
           /\ ErrorKind(i_error) \notin TransportErrorKinds
           /\ i_error.status = i_response.status
           /\ i_response.body # "empty" => i_response.body \in i_error.message
    /\ TransportFailed => ErrorKind(i_error) \in TransportErrorKinds

\* ------------------------------------------------------------------------
\* Properties of run_fast_system
\* ------------------------------------------------------------------------
\* The upstream answered the call of run_fast_system with a non-2xx status.
UpstreamHttpError ==
    f_pc = "returned" /\ f_response.kind = "response"
        /\ f_response.status \notin 200..299

\* The class the specification gives a status.
ClassOfStatus(status) ==
    IF status \in {401, 403} THEN "authentication"
    ELSE IF status = 429 THEN "rate_limit"
    ELSE "other"

\* The class a text returned to the user speaks of.
ClassOfText(formatted_response) ==
    IF formatted_response = "Oops! Missing API key" THEN "authentication"
    ELSE IF formatted_response = "Error calling" THEN "other"
    ELSE "none"

\* C15: the text returned for an upstream HTTP error is the one of the class
\* of its status: authentication for 401 and 403, rate limit for 429, other
\* for the rest; whatever the URL and the parameter values are.
C15_ErrorClassByStatus ==
    UpstreamHttpError =>
        ClassOfText(f_formatted_response) = ClassOfStatus(f_response.status)

\* ------------------------------------------------------------------------
\* Properties of the dispatch of invoke
\* ------------------------------------------------------------------------
\* invoke has been called and has gone through its dispatch (lines 129-141).
Dispatched ==
    i_pc = "awaiting" \/ (i_pc = "raised" /\ i_response.kind = "none")

\* C16: whichever of GET, POST, PUT, DELETE and PATCH the intent names, invoke
\* hands a request of that method to the HTTP client and rejects none as
\* unsupported.
C16_EveryMethodDispatched ==
    Dispatched =>
        /\ Len(i_sent) >= 1
        /\ i_sent[1].method = i_call.intent.http_method
        /\ i_error.cause # "ValueError"

\* The request of the call in progress is with the HTTP client.
RequestSent == i_pc = "awaiting" /\ Len(i_sent) = 1

BodyBucketEmpty == DOMAIN i_built.body_params = {}

\* C17: a GET or DELETE request carries no body; a POST or PUT request carries
\* the body bucket as its body exactly when the bucket is not empty; the query
\* bucket is sent as the query parameters of every request.
C17_BodySeparation ==
    RequestSent =>
        /\ i_sent[1].method \in {"GET", "DELETE"} => ~i_sent[1].has_json
        /\ i_sent[1].method \in {"POST", "PUT"} =>
               /\ i_sent[1].has_json <=> ~BodyBucketEmpty
               /\ i_sent[1].has_json => i_sent[1].json = i_built.body_params
        /\ i_sent[1].params = i_built.query_params

\* The HTTP call came to a non-2xx status or to a transport error.
FailedOutcome(response) ==
    \/ response.kind \in {"ConnectError", "TimeoutException"}
    \/ response.kind = "response" /\ response.status \notin 200..299

\* C18: a call of invoke makes at most one outbound HTTP request; the step
\* that follows the request ends the call with nothing more in flight, and
\* when the request failed that step raises the error, after which invoke
\* does nothing more.
C18_AtMostOneRequest ==
    /\ [](Len(i_sent) <= 1)
    /\ [][i_pc = "awaiting" =>
              /\ i_pc' \in {"returned", "raised"}
              /\ i_sent' = <<>>
              /\ FailedOutcome(i_response') =>
                     i_pc' = "raised" /\ i_error'.prefix = "Failed to call"]_vars
    /\ [][(i_pc = "returned" \/ i_pc = "raised") => UNCHANGED invokeVars]_vars

\* C18 (amended): invoke hands at most one request to the HTTP client, which
\* sends a further request only to follow a redirect; a failed outcome is
\* never followed by another request: the step that brings it ends the call
\* with the error raised, after which invoke does nothing more.
C18_NoResendAfterFailure ==
    /\ [][i_pc = "idle" => Len(i_sent') <= 1]_vars
    /\ [][(i_pc = "awaiting" /\ i_pc' = "awaiting") =>
              i_sent' = Append(i_sent, RedirectRequest(Last(i_sent)))]_vars
    /\ [][(i_pc = "awaiting" /\ FailedOutcome(i_response')) =>
              /\ i_pc' = "raised"
              /\ i_sent' = <<>>
              /\ i_error'.prefix = "Failed to call"]_vars
    /\ [][(i_pc = "returned" \/ i_pc = "raised") => UNCHANGED invokeVars]_vars

C18_Witness ==
    /\ i_pc = "raised"
    /\ FailedOutcome(i_response)
    /\ i_response.kind = "TimeoutException"
    /\ i_sent = <<>>
    /\ i_error.prefix = "Failed to call"

\* ------------------------------------------------------------------------
\* Properties of the parameter resolution of invoke
\* ------------------------------------------------------------------------
\* The four buckets when the loop over input_parameters ends (line 105).
Routed ==
    ProcessParams(EmptyBuckets, i_call.parameters, i_call.intent.input_parameters, 1)

\* What a bucket holds under a name, Absent when it holds nothing.
BucketValue(b, location, name) ==
    CASE location = "query" ->
             IF name \in DOMAIN b.query_params THEN b.query_params[name] ELSE Absent
      [] location = "body" ->
             IF name \in DOMAIN b.body_params THEN b.body_params[name] ELSE Absent
      [] location = "header" ->
             IF name \in DOMAIN b.headers THEN b.headers[name] ELSE Absent
      [] OTHER ->
             IF \E j \in 1..Len(b.path_params) : b.path_params[j][1] = name
             THEN LET j == CHOOSE j \in 1..Len(b.path_params) : b.path_params[j][1] = name
                  IN  b.path_params[j][2]
             ELSE Absent

\* The user value when the caller's map has one, otherwise the default.
ValueOrDefault(spec) ==
    IF Supplied(spec.name) THEN i_call.parameters[spec.name] ELSE spec.default

\* The entry of the caller's map when it has the key, whatever the entry is;
\* the default when it has not.
EntryOrDefault(spec) ==
    IF spec.name \in DOMAIN i_call.parameters
    THEN i_call.parameters[spec.name]
    ELSE spec.default

\* The parameter went where `value` sends it: a value to the bucket of the
\* declared location and to no other; None to no bucket, flagged as missing
\* exactly when the parameter is required.
ResolvedAs(spec, value) ==
    IF value # NoneVal
    THEN /\ \A l \in Locations :
                BucketValue(Routed, l, spec.name)
                    = IF l = spec.location THEN value ELSE Absent
         /\ spec.name \notin Routed.missing
    ELSE /\ \A l \in Locations : BucketValue(Routed, l, spec.name) = Absent
         /\ spec.name \in Routed.missing <=> spec.required

\* A missing parameter does not stop the call: the request is dispatched
\* whenever the method is one invoke dispatches.
MissingNotFatal ==
    i_call.intent.http_method # "PATCH" => i_pc = "awaiting" /\ Len(i_sent) >= 1

GetQueryOnlyDispatched ==
    /\ i_pc = "awaiting"
    /\ i_call.service.auth_type = "none"
    /\ i_call.intent.http_method = "GET"
    /\ \A i \in 1..Len(i_call.intent.input_parameters) :
           i_call.intent.input_parameters[i].location = "query"

\* The parameters that resolve to a value, each with that value.
ResolvedParameters ==
    LET specs == SeqRange(i_call.intent.input_parameters)
        value(name) == EntryOrDefault(CHOOSE spec \in specs : spec.name = name)
    IN  [name \in { spec.name : spec \in { x \in specs : EntryOrDefault(x) # NoneVal } }
             |-> value(name)]

ResultReturned == i_pc = "returned" /\ i_response.kind = "response"

\* The branch of lines 148-160 the response was handled by.
BranchOf(response) ==
    IF CtHas(response.content_type, "xml") \/ CtHas(response.content_type, "atom")
    THEN "xml"
    ELSE IF CtHas(response.content_type, "json") \/ StartsWithBrace(response.body)
    THEN "json"
    ELSE "raw"

\* C21: every result invoke returns has a format field, which is json for the
\* results of the json branch, xml for those of the xml branch and raw for
\* those of the fallback branch.
C21_FormatTag ==
    ResultReturned =>
        /\ i_result.format \in {"json", "xml", "raw"}
        /\ i_result.format = BranchOf(i_response)

\* ------------------------------------------------------------------------
\* Properties of the parameters run_fast_system builds
\* ------------------------------------------------------------------------
\* run_fast_system has called invoke for an intent with exactly one required
\* parameter, on a service that is not the one it knows the shape of.
GenericIntentInvoked ==
    /\ f_metadata.intent_name # NoneVal
    /\ ~NameHas(f_call.service.name, "arxiv")
    /\ Len(f_call.intent.input_parameters) = 1
    /\ f_call.intent.input_parameters[1].required

\* C22: for an intent of no known shape the parameter map gives the text of
\* the user query to the first required parameter, under its declared name,
\* so that an intent with one required parameter does not reach the invoker
\* with that parameter missing.
C22_GenericSynthesis ==
    GenericIntentInvoked =>
        LET first == f_call.intent.input_parameters[1]
        IN  /\ first.name \in DOMAIN f_call.parameters
            /\ f_call.parameters[first.name] \in UserQueries
            /\ BuildRequest(api_keys, f_call).missing = {}

\* invoke returned the result of the arXiv adapter.
ArxivResultReturned == ResultReturned /\ i_result.format = "arxiv"

\* C26: each entry of papers of an arXiv result has the fields title,
\* authors, summary and published, and a field named url, whose value may be
\* None.
C26_PaperFields ==
    ArxivResultReturned =>
        \A i \in 1..Len(Papers(i_response.body)) :
            {"title", "authors", "summary", "published", "url"}
                \subseteq DOMAIN Papers(i_response.body)[i]

\* ------------------------------------------------------------------------
\* Properties of the placeholders invoke leaves in the URL
\* ------------------------------------------------------------------------
\* The value the path bucket holds for the placeholder, Absent if none.
PathValueOf(placeholder) ==
    BucketValue(i_built, "path", IF placeholder = "{a}" THEN "a" ELSE "b")

\* invoke went through its dispatch with a placeholder of endpoint_path for
\* which the path bucket holds no value.
PlaceholderWithoutValue ==
    /\ Dispatched
    /\ \E j \in 1..Len(i_call.intent.endpoint_path) :
           /\ i_call.intent.endpoint_path[j] \in Placeholders
           /\ PathValueOf(i_call.intent.endpoint_path[j]) = Absent

\* C28: a placeholder of endpoint_path without a value in the path bucket is
\* left as it is in the URL, every other placeholder is replaced by its value,
\* and the request is dispatched, not rejected before the HTTP call.
C28_UnresolvedPlaceholderKept ==
    (PlaceholderWithoutValue /\ i_call.intent.http_method # "PATCH") =>
        /\ i_pc = "awaiting"
        /\ Len(i_sent) >= 1
        /\ Len(i_sent[1].url) = 1 + Len(i_call.intent.endpoint_path)
        /\ \A j \in 1..Len(i_call.intent.endpoint_path) :
               LET piece == i_call.intent.endpoint_path[j]
               IN  i_sent[1].url[j + 1] =
                       IF piece \in Placeholders /\ PathValueOf(piece) # Absent
                       THEN PathValueOf(piece)
                       ELSE piece

C28_Witness ==
    /\ i_pc = "awaiting"
    /\ PlaceholderWithoutValue
    /\ i_call.intent.endpoint_path = <<"/items/", "{a}", "/sub/", "{b}">>
    /\ Len(i_call.intent.input_parameters) = 2
    /\ i_call.intent.input_parameters[1].location = "query"
    /\ i_missing = {}
    /\ i_sent[1].url = <<"http://export.arxiv.org/api", "/items/", "{a}", "/sub/", "u">>

\* ------------------------------------------------------------------------
\* Properties of discover_service on an empty name
\* ------------------------------------------------------------------------
\* The reply of the LLM was parsed to the empty name.
EmptyNameExtracted ==
    /\ e_pc = "responded"
    /\ e_services # <<>>
    /\ ~e_selected_name.raised
    /\ e_selected_name.value = <<>>

\* C30: on an empty extracted name discover_service selects no service and
\* reports that none was found; a service is returned only for a non-empty
\* name, and it is a service of the catalogue.
C30_EmptyNameSelectsNothing ==
    /\ EmptyNameExtracted => e_service = 0 /\ e_error = "ValueError"
    /\ (e_pc = "responded" /\ e_service # 0) =>
           /\ e_selected_name.value # <<>>
           /\ e_service \in 1..Len(e_services)

\* ------------------------------------------------------------------------
\* Properties of the pipeline of run_fast_system
\* ------------------------------------------------------------------------
\* invoke returned a result to run_fast_system.
InvokerReturnedSuccess ==
    /\ f_response.kind = "response"
    /\ f_response.status \in 200..299
    /\ f_error_str \subseteq {"TypeError", "AttributeError"}

C24_NoPoolPerQuery == f_client = "none"

\* C27 -- Stage order in run_fast_system: the outbound service request is
\* dispatched only after discovery returned a service with at least one
\* intent, it targets that service's first listed intent, and when discovery
\* fails or the service has no intents no outbound request is dispatched.
RequestsDispatched == Len(f_sent) >= 1 \/ f_pc = "awaiting"

DiscoverySucceeded ==
    /\ f_discovery # NoDiscovery
    /\ f_discovery.body = "service"
    /\ f_intents # <<>>

C27_StageOrder ==
    /\ f_pc \in {"idle", "discovering"} => f_sent = <<>> /\ f_response.kind = "none"
    /\ RequestsDispatched =>
           /\ DiscoverySucceeded
           /\ f_client = "closed"
           /\ f_call.intent = f_intents[1]
           /\ f_metadata.intent_name = f_intents[1].intent_name
    /\ ~DiscoverySucceeded => f_sent = <<>> /\ f_response.kind = "none"

C27_Witness ==
    /\ f_pc = "returned"
    /\ Len(f_intents) = 2
    /\ f_intents[1] # f_intents[2]
    /\ f_call.intent = f_intents[1]
    /\ f_response.kind = "response"

\* C25 -- Cancellation by the caller while a query is suspended on a network
\* call ends the query with the cancellation propagated to the caller: the
\* step of the cancellation starts no request and no retry attempt and
\* changes nothing outside the query, and after it no step of the query runs.
CancellationLeavesRunFastSystem ==
    FastCancelled =>
        /\ f_pc' = "raised"
        /\ f_exception' = "CancelledError"
        /\ f_client' # "open"
        /\ UNCHANGED <<f_sent, f_response, f_metadata, f_formatted_response>>
        /\ UNCHANGED notFast

CancellationLeavesChatWithRetry ==
    AgentRunCancelled =>
        /\ g_pc' = "cancelled"
        /\ UNCHANGED <<attempt, prompts, hist, g_ret>>
        /\ UNCHANGED notGuard

NothingAfterCancellation ==
    /\ (f_pc = "raised" /\ f_exception = "CancelledError") => UNCHANGED vars
    /\ g_pc = "cancelled" => UNCHANGED vars

C25_CancellationPropagates ==
    /\ [][CancellationLeavesRunFastSystem]_vars
    /\ [][CancellationLeavesChatWithRetry]_vars
    /\ [][NothingAfterCancellation]_vars

C25_Witness ==
    /\ f_pc = "raised"
    /\ f_exception = "CancelledError"
    /\ Len(f_sent) >= 1
    /\ f_response.kind = "none"
    /\ ~f_metadata.success

\* C29 -- The chatbot endpoints answer a missing operation with HTTP 404:
\* POST /chat/invoke whose intent_name is not among the intents of
\* service_data, and POST /chat/discover whose selected service has no
\* intents, respond with status 404, and in the /chat/invoke case the
\* service invoker is never called.
MissingOperation ==
    /\ c_pc = "responded"
    /\ \/ c_endpoint = "invoke" /\ FindIntent(c_intents, c_intent_name) = 0
       \/ /\ c_endpoint = "discover"
          /\ c_discovery.body = "service"
          /\ c_discovery.intents = <<>>

C29_MissingOperationIs404 ==
    MissingOperation =>
        /\ c_status = 404
        /\ c_endpoint = "invoke" => c_invocations = 0
====
